---------------------------- MODULE Spec2Model ----------------------------
(***************************************************************************)
(* Hybrid retrieval and fusion pipeline of the LEED compliance assistant:  *)
(* query expansion, dense and lexical retrieval, weighted and reciprocal   *)
(* rank fusion, near-duplicate removal, grouping by credit and assembly of *)
(* the response.                                                           *)
(*                                                                         *)
(* Numbers.  Similarities are dot products of unit vectors scaled by       *)
(* VecNorm, so a cosine of 0.97 is the integer 970000.  An RRF score is    *)
(* kept as the exact integer  RrfScale(k) * sum 1/(k + rank) ; RrfScale(k) *)
(* is a common multiple of every denominator k + rank that can occur, so   *)
(* no rounding takes place and comparing two scaled scores compares the    *)
(* rationals.                                                              *)
(***************************************************************************)
EXTENDS Integers, Sequences, FiniteSets, TLC

\* ------------------------------------------------------------------------
\* Bounds of the model
\* ------------------------------------------------------------------------

\* longest ranked list a backend returns in the fusion specification
MaxTopK == 3

\* most ranked lists handed to the fuser in the fusion specification
MaxLists == 3

\* longest fused list handed to the deduplicator in the stage specification
MaxFusedLen == 4

\* largest limit a request asks for
MaxLimit == 3

\* largest maxChunksPerCredit a request asks for
MaxChunksBound == 3

\* number of times the index snapshot is rebuilt while a request is served
MaxRebuilds == 1

\* longest query, in words, of the query expansion specification
MaxQueryLen == 2

\* ------------------------------------------------------------------------
\* Program constants
\* ------------------------------------------------------------------------

DefaultRrfK == 60

\* 0.97, in thousandths
DefaultDedupThreshold == 970

MinTopCredits == 2

MaxTopCredits == 4

DefaultTopCredits == 3

DefaultMaxChunksPerCredit == 2

DefaultMaxSubqueries == 6

\* search() retrieves limit * 3 candidates, up to 20
CandidateFactor == 3

CandidateCap == 20

\* length of a unit embedding in the integer scale of the model
VecNorm == 1000

\* ------------------------------------------------------------------------
\* Generic helpers
\* ------------------------------------------------------------------------

Min(a, b) == IF a <= b THEN a ELSE b

Max(a, b) == IF a >= b THEN a ELSE b

Range(s) == { s[i] : i \in DOMAIN s }

Take(s, n) == SubSeq(s, 1, Min(n, Len(s)))

RECURSIVE SumOver(_, _)
SumOver(S, f) ==
    IF S = {} THEN 0
    ELSE LET x == CHOOSE y \in S : TRUE
         IN  f[x] + SumOver(S \ {x}, f)

RECURSIVE FilterSeq(_, _)
FilterSeq(s, keep) ==
    IF s = <<>> THEN <<>>
    ELSE (IF Head(s) \in keep THEN <<Head(s)>> ELSE <<>>)
         \o FilterSeq(Tail(s), keep)

\* insert x behind every element whose key is >= key[x]: the step of a stable
\* descending sort
RECURSIVE InsertDesc(_, _, _)
InsertDesc(sorted, x, key) ==
    IF sorted = <<>> THEN <<x>>
    ELSE IF key[Head(sorted)] >= key[x]
         THEN <<Head(sorted)>> \o InsertDesc(Tail(sorted), x, key)
         ELSE <<x>> \o sorted

RECURSIVE SortInto(_, _, _)
SortInto(sorted, rest, key) ==
    IF rest = <<>> THEN sorted
    ELSE SortInto(InsertDesc(sorted, Head(rest), key), Tail(rest), key)

\* stable sort of s, descending by the integer key[x] of each element x
StableSortDesc(s, key) == SortInto(<<>>, s, key)

\* all sequences without repetition over S, of length at most n
RECURSIVE DistinctSeqs(_, _)
DistinctSeqs(S, n) ==
    IF n = 0 THEN { <<>> }
    ELSE LET shorter == DistinctSeqs(S, n - 1)
             longer  == UNION { { Append(s, x) : x \in S \ Range(s) } : s \in shorter }
         IN  shorter \cup longer

\* ------------------------------------------------------------------------
\* The index snapshot: chunks with their metadata and unit embeddings
\* ------------------------------------------------------------------------

Sections ==
    { "requirements", "intent", "documentation", "calc", "thresholds",
      "definitions", "unknown" }

\* chunk metadata store: chunk_id -> structured metadata and embedding.
\* Chunks 1, 2, 3 are near-identical passages of one credit section:
\* cos(1,2) = 0.991, cos(2,3) = 0.993697, cos(1,3) = 0.970 exactly.
\* Chunks 2 and 4, and chunks 3 and 5, sit on the same pages of one document.
Corpus ==
    << [credit_id |-> "EA-p2", credit_name |-> "Minimum Energy Performance",
        section |-> "requirements", source_document |-> "guide",
        page_start |-> 45, page_end |-> 47,
        embedding |-> <<1000, 0, 0, 0, 0>>],
       [credit_id |-> "EA-p2", credit_name |-> "Minimum Energy Performance",
        section |-> "requirements", source_document |-> "rating",
        page_start |-> 10, page_end |-> 12,
        embedding |-> <<991, 133, 15, 2, 1>>],
       [credit_id |-> "EA-p2", credit_name |-> "Minimum Energy Performance",
        section |-> "requirements", source_document |-> "guide",
        page_start |-> 48, page_end |-> 48,
        embedding |-> <<970, 243, 7, 1, 1>>],
       [credit_id |-> "EA-p2", credit_name |-> "Minimum Energy Performance",
        section |-> "documentation", source_document |-> "rating",
        page_start |-> 10, page_end |-> 12,
        embedding |-> <<600, 0, 800, 0, 0>>],
       [credit_id |-> "EA-p2", credit_name |-> "Minimum Energy Performance",
        section |-> "definitions", source_document |-> "guide",
        page_start |-> 48, page_end |-> 48,
        embedding |-> <<280, 0, 960, 0, 0>>],
       [credit_id |-> "EA-c1", credit_name |-> "Optimize Energy Performance",
        section |-> "requirements", source_document |-> "guide",
        page_start |-> 50, page_end |-> 52,
        embedding |-> <<800, 600, 0, 0, 0>>],
       [credit_id |-> "EA-c1", credit_name |-> "Optimize Energy Performance",
        section |-> "intent", source_document |-> "guide",
        page_start |-> 53, page_end |-> 53,
        embedding |-> <<600, 800, 0, 0, 0>>],
       [credit_id |-> "WE-c3", credit_name |-> "Indoor Water Use Reduction",
        section |-> "requirements", source_document |-> "guide",
        page_start |-> 60, page_end |-> 61,
        embedding |-> <<0, 1000, 0, 0, 0>>],
       [credit_id |-> "MR-c1", credit_name |-> "Building Life-Cycle Impact",
        section |-> "thresholds", source_document |-> "rating",
        page_start |-> 70, page_end |-> 70,
        embedding |-> <<0, 0, 1000, 0, 0>>],
       [credit_id |-> "SS-c1", credit_name |-> "Site Assessment",
        section |-> "unknown", source_document |-> "rating",
        page_start |-> 80, page_end |-> 80,
        embedding |-> <<0, 0, 0, 1000, 0>> ] >>

\* chunk_id is the position in the corpus; its order stands for the
\* lexicographic order of the chunk_id strings
ChunkIds == DOMAIN Corpus

CreditIds == { Corpus[c].credit_id : c \in ChunkIds }

\* credit_id strings in ascending order, for the credit_id tie-break
CreditOrder == << "EA-c1", "EA-p2", "MR-c1", "SS-c1", "WE-c3" >>

CreditIndex(cr) == CHOOSE i \in DOMAIN CreditOrder : CreditOrder[i] = cr

RECURSIVE DotFrom(_, _, _)
DotFrom(u, v, i) ==
    IF i > Len(u) THEN 0 ELSE u[i] * v[i] + DotFrom(u, v, i + 1)

\* dot product; for unit vectors this is the cosine similarity (times
\* VecNorm * VecNorm)
Dot(u, v) == DotFrom(u, v, 1)

CosineSimilarity(a, b) == Dot(Corpus[a].embedding, Corpus[b].embedding)

\* ------------------------------------------------------------------------
\* Deduplicator (remove_near_duplicates)
\* A fused list is a sequence of FusedResult records
\*   [chunk_id, fused_score, dense], best first.
\* ------------------------------------------------------------------------

\* variant: a similarity equal to the threshold counts as a duplicate
RuleADuplicateInclusive(a, b, threshold) ==
    /\ Corpus[a].credit_id = Corpus[b].credit_id
    /\ Corpus[a].section = Corpus[b].section
    /\ CosineSimilarity(a, b) >= threshold * VecNorm

\* Rule A: same credit_id + same section + cosine similarity > threshold
\* (threshold in thousandths)
RuleADuplicate(a, b, threshold) ==
    /\ Corpus[a].credit_id = Corpus[b].credit_id
    /\ Corpus[a].section = Corpus[b].section
    /\ CosineSimilarity(a, b) > threshold * VecNorm

\* Rule B: same document + same page_start-page_end range
RuleBDuplicate(a, b) ==
    /\ Corpus[a].source_document = Corpus[b].source_document
    /\ Corpus[a].page_start = Corpus[b].page_start
    /\ Corpus[a].page_end = Corpus[b].page_end

\* one pass over the sorted list: a result is kept unless it is a Rule A
\* duplicate of a result already kept
RECURSIVE PassA(_, _, _)
PassA(kept, rest, threshold) ==
    IF rest = <<>> THEN kept
    ELSE LET x == Head(rest)
             dup == \E i \in DOMAIN kept :
                        RuleADuplicate(kept[i].chunk_id, x.chunk_id, threshold)
         IN  PassA(IF dup THEN kept ELSE Append(kept, x), Tail(rest), threshold)

RECURSIVE PassB(_, _)
PassB(kept, rest) ==
    IF rest = <<>> THEN kept
    ELSE LET x == Head(rest)
             dup == \E i \in DOMAIN kept :
                        RuleBDuplicate(kept[i].chunk_id, x.chunk_id)
         IN  PassB(IF dup THEN kept ELSE Append(kept, x), Tail(rest))

\* variant: results removed while the list is walked, so that the result
\* behind a removed one is never compared
RECURSIVE PassASkipping(_, _, _)
PassASkipping(kept, rest, threshold) ==
    IF rest = <<>> THEN kept
    ELSE LET x == Head(rest)
             dup == \E i \in DOMAIN kept :
                        RuleADuplicate(kept[i].chunk_id, x.chunk_id, threshold)
         IN  IF ~dup THEN PassASkipping(Append(kept, x), Tail(rest), threshold)
             ELSE IF Len(rest) = 1 THEN kept
             ELSE PassASkipping(Append(kept, rest[2]), Tail(Tail(rest)), threshold)

ApplyRuleASkipping(results, threshold) == PassASkipping(<<>>, results, threshold)

ApplyRuleA(results, threshold) == PassA(<<>>, results, threshold)

ApplyRuleB(results) == PassB(<<>>, results)

\* variant: Rule B first, then Rule A
RemoveNearDuplicatesPagesFirst(results, threshold) ==
    ApplyRuleA(ApplyRuleB(results), threshold)

\* Rule A over the whole list, then Rule B over what Rule A kept
RemoveNearDuplicates(results, threshold) ==
    ApplyRuleB(ApplyRuleA(results, threshold))

\* ------------------------------------------------------------------------
\* CreditGrouper (group_by_credit, rank_credits_by_relevance,
\* select_top_chunks_per_credit)
\* ------------------------------------------------------------------------

SectionPriority ==
    [ sec \in Sections |->
        CASE sec = "requirements"  -> 10
          [] sec = "intent"        -> 9
          [] sec = "documentation" -> 8
          [] sec = "calc"          -> 7
          [] sec = "thresholds"    -> 6
          [] sec = "definitions"   -> 5
          [] OTHER                 -> 1 ]

CreditsOf(results) == { Corpus[results[i].chunk_id].credit_id : i \in DOMAIN results }

\* the results of one credit, in the order of the list
GroupByCredit(results, credit) ==
    FilterSeq(results, { r \in Range(results) : Corpus[r.chunk_id].credit_id = credit })

\* a group's score is its highest chunk score
RepresentativeScore(results, credit) ==
    LET scores == { r.fused_score : r \in Range(GroupByCredit(results, credit)) }
    IN  CHOOSE m \in scores : \A x \in scores : x <= m

\* variant: credits in credit_id order, whatever their scores
RankCreditsById(results) == FilterSeq(CreditOrder, CreditsOf(results))

\* variant: equal scores by credit_id descending
RankCreditsLastIdFirst(results) ==
    LET present == CreditsOf(results)
        byId    == FilterSeq(CreditOrder, present)
        rep     == [ cr \in present |-> RepresentativeScore(results, cr) ]
    IN  StableSortDesc([ i \in DOMAIN byId |-> byId[Len(byId) + 1 - i] ], rep)

\* credits by representative score, highest first; equal scores by credit_id
\* ascending
RankCreditsByRelevance(results) ==
    LET present == CreditsOf(results)
        byId    == FilterSeq(CreditOrder, present)
        rep     == [ cr \in present |-> RepresentativeScore(results, cr) ]
    IN  StableSortDesc(byId, rep)

\* variant: the group by section priority, never cut
SelectAllChunksPerCredit(group, maxChunks) ==
    StableSortDesc(group,
        [ r \in Range(group) |-> SectionPriority[Corpus[r.chunk_id].section] ])

\* variant: the best-scored chunks of the group, in score order
SelectTopChunksByScore(group, maxChunks) == Take(group, maxChunks)

\* the chunks of one group by section priority, cut to maxChunks
SelectTopChunksPerCredit(group, maxChunks) ==
    LET prio == [ r \in Range(group) |-> SectionPriority[Corpus[r.chunk_id].section] ]
    IN  Take(StableSortDesc(group, prio), maxChunks)

RECURSIVE ConcatGroups(_, _, _)
ConcatGroups(results, credits, maxChunks) ==
    IF credits = <<>> THEN <<>>
    ELSE SelectTopChunksPerCredit(GroupByCredit(results, Head(credits)), maxChunks)
         \o ConcatGroups(results, Tail(credits), maxChunks)

\* variant: every credit is kept, not only the top ones
GroupAndSelectEveryCredit(results, topCredits, maxChunks) ==
    ConcatGroups(results, RankCreditsByRelevance(results), maxChunks)

\* top credits, each with its top chunks, as one flat list in group order
GroupAndSelect(results, topCredits, maxChunks) ==
    ConcatGroups(results, Take(RankCreditsByRelevance(results), topCredits), maxChunks)

\* deduplicate_and_group: the whole post-fusion process
DeduplicateAndGroup(results, threshold, topCredits, maxChunks) ==
    GroupAndSelect(RemoveNearDuplicates(results, threshold), topCredits, maxChunks)

\* ------------------------------------------------------------------------
\* QueryExpander (expand_query).  A query is a sequence of tokens.
\* ------------------------------------------------------------------------

\* the raw queries of the model
Queries ==
    { <<"energy", "efficiency", "requirements">>,
      <<"EA", "minimum", "energy", "performance">>,
      <<"water", "use">>,
      <<"design", "intent">>,
      <<"site", "plan">> }

\* static lookup table: credit-code tokens and category keywords with the
\* canonical reformulations synthesized for each
ExpansionRules ==
    << [token |-> "EA",
        subqueries |-> << <<"EA", "minimum", "energy", "performance", "requirements">>,
                          <<"EA", "optimize", "energy", "performance", "requirements">> >>],
       [token |-> "energy",
        subqueries |-> << <<"EA", "minimum", "energy", "performance", "requirements">>,
                          <<"EA", "optimize", "energy", "performance", "requirements">>,
                          <<"energy", "performance", "prerequisite", "baseline">> >>],
       [token |-> "WE",
        subqueries |-> << <<"WE", "indoor", "water", "use", "reduction">> >>],
       [token |-> "water",
        subqueries |-> << <<"WE", "indoor", "water", "use", "reduction">>,
                          <<"water", "efficiency", "requirements">> >>] >>

RECURSIVE Reformulations(_, _)
Reformulations(query, i) ==
    IF i > Len(ExpansionRules) THEN <<>>
    ELSE (IF ExpansionRules[i].token \in Range(query)
          THEN ExpansionRules[i].subqueries ELSE <<>>)
         \o Reformulations(query, i + 1)

\* s without repeated elements, the first occurrence of each kept
RECURSIVE Unique(_, _)
Unique(seen, s) ==
    IF s = <<>> THEN seen
    ELSE Unique(IF Head(s) \in Range(seen) THEN seen ELSE Append(seen, Head(s)),
                Tail(s))

\* the context every expanded query is placed in
ContextTokens == << "LEED", "v4.1", "BD+C" >>

\* the reformulations of every rule that matches, without repetition, then
\* the query itself in the LEED context as the last sub-query, maxSubqueries
\* in all at most; a query no rule matches passes through unchanged
ExpandQuery(query, maxSubqueries) ==
    LET found == Unique(<<>>, Reformulations(query, 1))
    IN  IF found = <<>> THEN << query >>
        ELSE Take(found, maxSubqueries - 1) \o << query \o ContextTokens >>

\* ------------------------------------------------------------------------
\* CandidateRetriever: dense (FAISS, inner product of unit vectors) and
\* lexical (BM25 over text enriched with credit code, name and section)
\* A ranked list is [origin, items]; an item is [chunk_id, score, dense];
\* the rank of an item is its position.
\* ------------------------------------------------------------------------

\* the embedding model, an external capability: a fixed function from text to
\* unit vectors
Embed(subquery) ==
    LET t == Range(subquery)
    IN  CASE "minimum" \in t  -> <<1000, 0, 0, 0, 0>>
          [] "optimize" \in t -> <<800, 600, 0, 0, 0>>
          [] "baseline" \in t -> <<600, 0, 800, 0, 0>>
          [] "intent" \in t   -> <<600, 800, 0, 0, 0>>
          [] "water" \in t    -> <<0, 1000, 0, 0, 0>>
          [] "energy" \in t   -> <<960, 280, 0, 0, 0>>
          [] "site" \in t     -> <<0, 0, 0, 1000, 0>>
          [] OTHER            -> <<0, 0, 0, 0, 1000>>

\* tokens of each chunk's enriched text: credit code, credit name, section
ChunkTokens ==
    << {"EA", "minimum", "energy", "performance", "requirements"},
       {"EA", "minimum", "energy", "performance", "requirements", "baseline"},
       {"EA", "minimum", "energy", "performance", "requirements", "prerequisite"},
       {"EA", "minimum", "energy", "performance", "documentation"},
       {"EA", "minimum", "energy", "performance", "definitions", "baseline"},
       {"EA", "optimize", "energy", "performance", "requirements"},
       {"EA", "optimize", "energy", "performance", "intent", "efficiency"},
       {"WE", "indoor", "water", "use", "reduction", "requirements"},
       {"MR", "building", "impact", "thresholds"},
       {"SS", "site", "assessment", "unknown"} >>

\* a chunk absent from every dense list has the lowest possible similarity
NoDense == 0 - VecNorm * VecNorm

ChunkIdSeq == [ i \in 1..Len(Corpus) |-> i ]

DenseSimilarity(subquery, c) == Dot(Embed(subquery), Corpus[c].embedding)

\* relevance of a chunk: the number of query tokens its enriched text holds
LexicalRelevance(subquery, c) == Cardinality(Range(subquery) \cap ChunkTokens[c])

\* top k by similarity descending, ties by chunk_id
DenseSearch(subquery, k) ==
    LET sim    == [ c \in ChunkIds |-> DenseSimilarity(subquery, c) ]
        ranked == Take(StableSortDesc(ChunkIdSeq, sim), k)
    IN  [ origin |-> "dense",
          items  |-> [ i \in DOMAIN ranked |->
                         [chunk_id |-> ranked[i], score |-> sim[ranked[i]],
                          dense |-> sim[ranked[i]]] ] ]

\* top k matching chunks by relevance descending, ties by chunk_id
LexicalSearch(subquery, k) ==
    LET rel    == [ c \in ChunkIds |-> LexicalRelevance(subquery, c) ]
        hits   == FilterSeq(ChunkIdSeq, { c \in ChunkIds : rel[c] > 0 })
        ranked == Take(StableSortDesc(hits, rel), k)
    IN  [ origin |-> "lexical",
          items  |-> [ i \in DOMAIN ranked |->
                         [chunk_id |-> ranked[i], score |-> rel[ranked[i]],
                          dense |-> NoDense] ] ]

EmptyList(origin) == [ origin |-> origin, items |-> <<>> ]

\* ------------------------------------------------------------------------
\* ScoreFuser
\* ------------------------------------------------------------------------

RECURSIVE Gcd(_, _)
Gcd(a, b) == IF b = 0 THEN a ELSE Gcd(b, a % b)

Lcm(a, b) == (a \div Gcd(a, b)) * b

\* least common multiple of k + 1 .. k + maxRank
RECURSIVE RrfScale(_, _)
RrfScale(k, maxRank) ==
    IF maxRank = 0 THEN 1 ELSE Lcm(RrfScale(k, maxRank - 1), k + maxRank)

RECURSIVE LongestList(_)
LongestList(lists) ==
    IF lists = <<>> THEN 0
    ELSE Max(Len(Head(lists).items), LongestList(Tail(lists)))

\* variant: the rank counted one too far
RrfContributionRankOff(k, rank, scale) == scale \div (k + rank + 1)

\* variant: the quotient taken in whole numbers, 1 // (k + rank)
RrfContributionWhole(k, rank, scale) == scale * (1 \div (k + rank))

\* 1 / (k + rank), in units of 1 / scale
RrfContribution(k, rank, scale) == scale \div (k + rank)

\* items ordered by score descending, then raw dense similarity descending,
\* then chunk_id ascending
SortItems(items) ==
    LET byId    == StableSortDesc(items, [ x \in Range(items) |-> 0 - x.chunk_id ])
        byDense == StableSortDesc(byId, [ x \in Range(items) |-> x.dense ])
    IN  StableSortDesc(byDense, [ x \in Range(items) |-> x.score ])

\* the running state of a fusion: chunks in the order first seen, the score
\* and the best raw dense similarity of each
EmptyFusion ==
    [ order |-> <<>>,
      score |-> [ c \in ChunkIds |-> 0 ],
      dense |-> [ c \in ChunkIds |-> NoDense ] ]

\* variant: a list's contribution replaces the score instead of adding to it
RECURSIVE AddRanksOverwriting(_, _, _, _, _)
AddRanksOverwriting(acc, items, rank, k, scale) ==
    IF rank > Len(items) THEN acc
    ELSE LET c    == items[rank].chunk_id
             next == [ order |-> IF c \in Range(acc.order) THEN acc.order
                                 ELSE Append(acc.order, c),
                       score |-> [ acc.score EXCEPT ![c] = RrfContribution(k, rank, scale) ],
                       dense |-> [ acc.dense EXCEPT ![c] = Max(@, items[rank].dense) ] ]
         IN  IF c \in Range(next.order)
             THEN AddRanksOverwriting(next, items, rank + 1, k, scale)
             ELSE acc

\* one list added to the running fusion, rank by rank; the chunk of a rank is
\* in the order once the rank is added
RECURSIVE AddRanks(_, _, _, _, _)
AddRanks(acc, items, rank, k, scale) ==
    IF rank > Len(items) THEN acc
    ELSE LET c    == items[rank].chunk_id
             next == [ order |-> IF c \in Range(acc.order) THEN acc.order
                                 ELSE Append(acc.order, c),
                       score |-> [ acc.score EXCEPT ![c] = @ + RrfContribution(k, rank, scale) ],
                       dense |-> [ acc.dense EXCEPT ![c] = Max(@, items[rank].dense) ] ]
         IN  IF c \in Range(next.order)
             THEN AddRanks(next, items, rank + 1, k, scale)
             ELSE acc

RECURSIVE AddLists(_, _, _, _)
AddLists(acc, lists, k, scale) ==
    IF lists = <<>> THEN acc
    ELSE AddLists(AddRanks(acc, Head(lists).items, 1, k, scale), Tail(lists), k, scale)

\* variant: results re-ranked by score alone, chunks of equal score left in
\* the order the lists brought them up
ReciprocalRankFusionScoreOnly(lists, k) ==
    LET acc   == AddLists(EmptyFusion, lists, k, RrfScale(k, LongestList(lists)))
        items == [ i \in DOMAIN acc.order |->
                     [chunk_id |-> acc.order[i], score |-> acc.score[acc.order[i]],
                      dense |-> acc.dense[acc.order[i]]] ]
        best  == StableSortDesc(items, [ x \in Range(items) |-> x.score ])
    IN  [ i \in DOMAIN best |->
            [chunk_id |-> best[i].chunk_id, fused_score |-> best[i].score,
             dense |-> best[i].dense] ]

\* RRF_Score(result) = sum of 1 / (k + rank_i) over the lists holding the
\* result; results re-ranked by that score
ReciprocalRankFusion(lists, k) ==
    LET acc   == AddLists(EmptyFusion, lists, k, RrfScale(k, LongestList(lists)))
        items == [ i \in DOMAIN acc.order |->
                     [chunk_id |-> acc.order[i], score |-> acc.score[acc.order[i]],
                      dense |-> acc.dense[acc.order[i]]] ]
        best  == SortItems(items)
    IN  [ i \in DOMAIN best |->
            [chunk_id |-> best[i].chunk_id, fused_score |-> best[i].score,
             dense |-> best[i].dense] ]

ScoresOf(list) == { list.items[i].score : i \in DOMAIN list.items }

MinScore(list) == CHOOSE m \in ScoresOf(list) : \A x \in ScoresOf(list) : m <= x

MaxScore(list) == CHOOSE m \in ScoresOf(list) : \A x \in ScoresOf(list) : m >= x

\* min-max scaling to [0, 1] as the fraction NormNum / NormDen; a list whose
\* scores are all equal normalizes to 1
NormDen(list) ==
    IF list.items = <<>> \/ MaxScore(list) = MinScore(list) THEN 1
    ELSE MaxScore(list) - MinScore(list)

NormNum(list, i) ==
    IF MaxScore(list) = MinScore(list) THEN 1
    ELSE list.items[i].score - MinScore(list)

IdsOf(list) == { list.items[i].chunk_id : i \in DOMAIN list.items }

PositionOf(list, c) == CHOOSE i \in DOMAIN list.items : list.items[i].chunk_id = c

\* variant: a chunk missing from one list counts 0 for that list
HybridScoreZeroFill(denseList, lexicalList, c, denseWeight, lexicalWeight) ==
    LET dd == NormDen(denseList)
        dl == NormDen(lexicalList)
        nd == IF c \in IdsOf(denseList)
              THEN NormNum(denseList, PositionOf(denseList, c)) ELSE 0
        nl == IF c \in IdsOf(lexicalList)
              THEN NormNum(lexicalList, PositionOf(lexicalList, c)) ELSE 0
    IN  denseWeight * nd * dl + lexicalWeight * nl * dd

\* hybrid = dense_weight * norm(dense) + lexical_weight * norm(lexical), the
\* weights in tenths; the score is kept in units of
\* 1 / (10 * NormDen(dense) * NormDen(lexical)).  A chunk of one list only
\* scores that list's normalized score alone.
HybridScore(denseList, lexicalList, c, denseWeight, lexicalWeight) ==
    LET dd == NormDen(denseList)
        dl == NormDen(lexicalList)
        inD == c \in IdsOf(denseList)
        inL == c \in IdsOf(lexicalList)
        nd == IF inD THEN NormNum(denseList, PositionOf(denseList, c)) ELSE 0
        nl == IF inL THEN NormNum(lexicalList, PositionOf(lexicalList, c)) ELSE 0
    IN  IF inD /\ inL THEN denseWeight * nd * dl + lexicalWeight * nl * dd
        ELSE IF inD THEN 10 * nd * dl
        ELSE 10 * nl * dd

\* weighted fusion of the two lists of one sub-query, re-ranked by hybrid
\* score
WeightedFusion(denseList, lexicalList, denseWeight, lexicalWeight) ==
    LET ids == FilterSeq(ChunkIdSeq, IdsOf(denseList) \cup IdsOf(lexicalList))
        items == [ i \in DOMAIN ids |->
                     [chunk_id |-> ids[i],
                      score |-> HybridScore(denseList, lexicalList, ids[i],
                                            denseWeight, lexicalWeight),
                      dense |-> IF ids[i] \in IdsOf(denseList)
                                THEN denseList.items[PositionOf(denseList, ids[i])].dense
                                ELSE NoDense] ]
    IN  [ origin |-> "hybrid", items |-> SortItems(items) ]

\* ------------------------------------------------------------------------
\* ResultAssembler and search()
\* ------------------------------------------------------------------------

\* variant: a record without its pages
ResultRecordWithoutPages(r) ==
    [ chunk_id        |-> r.chunk_id,
      credit_id       |-> Corpus[r.chunk_id].credit_id,
      credit_name     |-> Corpus[r.chunk_id].credit_name,
      section         |-> Corpus[r.chunk_id].section,
      source_document |-> Corpus[r.chunk_id].source_document,
      fused_score     |-> r.fused_score,
      dense           |-> r.dense ]

\* the record of one surviving chunk, with its provenance
ResultRecord(r) ==
    [ chunk_id        |-> r.chunk_id,
      credit_id       |-> Corpus[r.chunk_id].credit_id,
      credit_name     |-> Corpus[r.chunk_id].credit_name,
      section         |-> Corpus[r.chunk_id].section,
      page_start      |-> Corpus[r.chunk_id].page_start,
      page_end        |-> Corpus[r.chunk_id].page_end,
      source_document |-> Corpus[r.chunk_id].source_document,
      fused_score     |-> r.fused_score,
      dense           |-> r.dense ]

AssembleResponse(results, limit) ==
    LET cut == Take(results, limit)
    IN  [ i \in DOMAIN cut |-> ResultRecord(cut[i]) ]

\* search() retrieves more candidates than it returns: limit * 3, up to 20
CandidateCount(limit) == Min(limit * CandidateFactor, CandidateCap)

\* variant: weights and topCredits are taken as they come
ValidOptionsLax(o) ==
    /\ o.limit >= 1
    /\ o.maxSubqueries >= 1
    /\ o.maxChunksPerCredit >= 1
    /\ o.rrfK >= 0

ValidOptions(o) ==
    /\ o.limit >= 1
    /\ o.maxSubqueries >= 1
    /\ o.topCredits >= MinTopCredits
    /\ o.topCredits <= MaxTopCredits
    /\ o.maxChunksPerCredit >= 1
    /\ o.denseWeight >= 0
    /\ o.lexicalWeight >= 0
    /\ o.rrfK >= 0

\* variant: under weighted fusion only the chunks both backends returned are
\* kept
CombineListsBothRequired(denseList, lexicalList, o) ==
    IF ~o.useHybrid THEN << denseList >>
    ELSE IF o.fusionMethod = "weighted"
    THEN LET both == IdsOf(denseList) \cap IdsOf(lexicalList)
             d    == [ denseList EXCEPT
                         !.items = FilterSeq(@, { x \in Range(@) : x.chunk_id \in both }) ]
             l    == [ lexicalList EXCEPT
                         !.items = FilterSeq(@, { x \in Range(@) : x.chunk_id \in both }) ]
         IN  << WeightedFusion(d, l, o.denseWeight, o.lexicalWeight) >>
    ELSE << denseList, lexicalList >>

\* the ranked lists of one sub-query, from what its backends returned: one
\* hybrid list under weighted fusion, the two backends' lists under RRF
\* fusion, the dense list alone without hybrid retrieval
CombineLists(denseList, lexicalList, o) ==
    IF ~o.useHybrid THEN << denseList >>
    ELSE IF o.fusionMethod = "weighted"
    THEN << WeightedFusion(denseList, lexicalList, o.denseWeight, o.lexicalWeight) >>
    ELSE << denseList, lexicalList >>

\* the ranked lists of one sub-query whose backends both answer
ListsFor(subquery, o) ==
    LET k == CandidateCount(o.limit)
        denseList   == DenseSearch(subquery, k)
        lexicalList == LexicalSearch(subquery, k)
    IN  CombineLists(denseList, lexicalList, o)

RECURSIVE RetrieveAll(_, _)
RetrieveAll(subs, o) ==
    IF subs = <<>> THEN <<>>
    ELSE ListsFor(Head(subs), o) \o RetrieveAll(Tail(subs), o)

\* ------------------------------------------------------------------------
\* The fan-out of one request: one call per sub-query and backend, each with
\* a timeout; the index snapshot behind an atomically swapped reference
\* ------------------------------------------------------------------------

\* the backends a request calls for each sub-query
BackendsOf(o) == IF o.useHybrid THEN << "dense", "lexical" >> ELSE << "dense" >>

\* the calls of a request, all pending: sub-query by sub-query, the dense call
\* before the lexical one
DispatchCalls(subs, o) ==
    LET b == BackendsOf(o)
    IN  [ n \in 1..(Len(subs) * Len(b)) |->
            [ sub     |-> ((n - 1) \div Len(b)) + 1,
              backend |-> b[((n - 1) % Len(b)) + 1],
              status  |-> "pending",
              items   |-> <<>> ] ]

\* what a backend answers to a call
BackendAnswer(call, subs, o) ==
    IF call.backend = "dense"
    THEN DenseSearch(subs[call.sub], CandidateCount(o.limit)).items
    ELSE LexicalSearch(subs[call.sub], CandidateCount(o.limit)).items

\* variant: one settled call is enough
SomeCallSettled(cs) == \E n \in DOMAIN cs : cs[n].status # "pending"

\* the join point: every dispatched call has returned, failed or timed out
AllCallsSettled(cs) == \A n \in DOMAIN cs : cs[n].status # "pending"

\* the list a backend contributed for sub-query i: empty unless its call
\* returned
CallList(cs, i, backend) ==
    LET mine == { n \in DOMAIN cs : cs[n].sub = i /\ cs[n].backend = backend }
    IN  IF mine = {} THEN EmptyList(backend)
        ELSE [ origin |-> backend, items |-> cs[CHOOSE n \in mine : TRUE].items ]

\* the ranked lists handed to the cross-list fusion, sub-query by sub-query
RECURSIVE JoinLists(_, _, _, _)
JoinLists(cs, i, count, o) ==
    IF i > count THEN <<>>
    ELSE CombineLists(CallList(cs, i, "dense"), CallList(cs, i, "lexical"), o)
         \o JoinLists(cs, i + 1, count, o)

\* degraded capability: some call of the request did not return
Degraded(cs) == \E n \in DOMAIN cs : cs[n].status # "returned"

\* variant: a request none of whose calls returned is failed
RequestErrorWhenAllFail(cs) ==
    IF cs # <<>> /\ \A n \in DOMAIN cs : cs[n].status # "returned"
    THEN "BackendUnavailable" ELSE "none"

\* backend failures and timeouts are never surfaced to the caller
RequestError(cs) == "none"

\* variant: the reference is read again at every use
SnapshotReadCurrent(heldRef, currentRef) == currentRef

\* the snapshot a request reads: the one whose reference it took when it
\* started
SnapshotRead(heldRef, currentRef) == heldRef

\* ---------------------------------------------------------------------------
\* The demo page (demo_landing_page): texts
\* ---------------------------------------------------------------------------

\* value of a variable that holds nothing (undefined or null)
Undefined == "undefined"

\* a text is the sequence of its characters
WhiteSpace == { " " }

RECURSIVE TrimStart(_)
TrimStart(s) ==
    IF s # << >> /\ Head(s) \in WhiteSpace THEN TrimStart(Tail(s)) ELSE s

RECURSIVE TrimEnd(_)
TrimEnd(s) ==
    IF s # << >> /\ s[Len(s)] \in WhiteSpace
    THEN TrimEnd(SubSeq(s, 1, Len(s) - 1)) ELSE s

\* String.prototype.trim
Trim(s) == TrimEnd(TrimStart(s))

UpperToLower ==
      "A" :> "a" @@ "B" :> "b" @@ "C" :> "c" @@ "D" :> "d" @@ "E" :> "e" @@ "F" :> "f" @@
      "G" :> "g" @@ "H" :> "h" @@ "I" :> "i" @@ "J" :> "j" @@ "K" :> "k" @@ "L" :> "l" @@
      "M" :> "m" @@ "N" :> "n" @@ "O" :> "o" @@ "P" :> "p" @@ "Q" :> "q" @@ "R" :> "r" @@
      "S" :> "s" @@ "T" :> "t" @@ "U" :> "u" @@ "V" :> "v" @@ "W" :> "w" @@ "X" :> "x" @@
      "Y" :> "y" @@ "Z" :> "z"

\* String.prototype.toLowerCase, and the i flag of a pattern
ToLowerCase(s) ==
    [ i \in DOMAIN s |-> IF s[i] \in DOMAIN UpperToLower THEN UpperToLower[s[i]] ELSE s[i] ]

\* the characters \w matches
WordChars ==
    DOMAIN UpperToLower \cup
    { "a", "b", "c", "d", "e", "f", "g", "h", "i", "j", "k", "l", "m", "n",
      "o", "p", "q", "r", "s", "t", "u", "v", "w", "x", "y", "z", "0", "1",
      "2", "3", "4", "5", "6", "7", "8", "9", "_" }

\* pat stands in s from position i on
LitAt(s, pat, i) ==
    /\ i >= 1
    /\ i + Len(pat) - 1 <= Len(s)
    /\ SubSeq(s, i, i + Len(pat) - 1) = pat

\* String.prototype.includes
Includes(s, pat) == \E i \in 1..(Len(s) + 1) : LitAt(s, pat, i)

IsWordAt(s, i) == i \in DOMAIN s /\ s[i] \in WordChars

\* \b in front of position i
Boundary(s, i) == IsWordAt(s, i - 1) # IsWordAt(s, i)

\* the positions \s+ can end in front of when it starts at position k
AfterSpaces(s, k) ==
    { j \in (k + 1)..(Len(s) + 1) : \A m \in k..(j - 1) : s[m] \in WhiteSpace }

\* the words of the patterns of botReply
PatList == << "l", "i", "s", "t" >>

PatShow == << "s", "h", "o", "w" >>

PatAll == << "a", "l", "l" >>

PatLeed == << "l", "e", "e", "d" >>

PatCredit == << "c", "r", "e", "d", "i", "t" >>

PatCredits == << "c", "r", "e", "d", "i", "t", "s" >>

PatAnaly == << "a", "n", "a", "l", "y" >>

PatScan == << "s", "c", "a", "n" >>

PatRecommend == << "r", "e", "c", "o", "m", "m", "e", "n", "d" >>

PatEnergy == << "e", "n", "e", "r", "g", "y" >>

PatHello == << "h", "e", "l", "l", "o" >>

PatHi == << "h", "i" >>


\* the positions behind (list|show) at a (^|\b)
ListOrShow(s) ==
    { i + 4 : i \in { i \in 1..Len(s) :
                        /\ i = 1 \/ Boundary(s, i)
                        /\ LitAt(s, PatList, i) \/ LitAt(s, PatShow, i) } }

\* /(^|\b)(list|show) (all )?credits(\b|$)/i
MatchesListCredits(prompt) ==
    LET s        == ToLowerCase(prompt)
        spaced   == { k + 1 : k \in { k \in ListOrShow(s) : LitAt(s, << " " >>, k) } }
        afterAll == spaced \cup
                    { k + 4 : k \in { k \in spaced : LitAt(s, PatAll \o << " " >>, k) } }
        ends     == { k + 7 : k \in { k \in afterAll : LitAt(s, PatCredits, k) } }
    IN  \E e \in ends : e = Len(s) + 1 \/ Boundary(s, e)

\* the positions behind \s+pat for the positions from
SpacedWord(s, from, pat) ==
    { j + Len(pat) :
        j \in { j \in UNION { AfterSpaces(s, k) : k \in from } : LitAt(s, pat, j) } }

\* the positions behind (\s+pat)? for the positions from
OptionalWord(s, from, pat) == from \cup SpacedWord(s, from, pat)

\* /(^|\b)(list|show)(\s+all)?(\s+LEED)?(\s+credits?)(\b|$)/i
MatchesListLeedCredits(prompt) ==
    LET s         == ToLowerCase(prompt)
        afterLeed == OptionalWord(s, OptionalWord(s, ListOrShow(s), PatAll), PatLeed)
        credit    == SpacedWord(s, afterLeed, PatCredit)
        ends      == credit \cup { e + 1 : e \in { e \in credit : LitAt(s, << "s" >>, e) } }
    IN  \E e \in ends : e = Len(s) + 1 \/ Boundary(s, e)

\* the three initialisation blocks of script.js, in the order they register
Blocks == << 1, 2, 3 >>

\* the branch botReply of block b takes for a prompt
ReplyBranch(b, prompt) ==
    LET p == ToLowerCase(prompt)
    IN  IF (IF b = 2 THEN MatchesListLeedCredits(prompt) ELSE MatchesListCredits(prompt))
        THEN "credits"
        ELSE IF Includes(p, PatAnaly) \/ Includes(p, PatScan) THEN "analyze"
        ELSE IF b # 2 /\ Includes(p, PatRecommend) THEN "recommend"
        ELSE IF b # 2 /\ Includes(p, PatEnergy) THEN "energy"
        ELSE IF Includes(p, PatHello) \/ Includes(p, PatHi) THEN "greeting"
        ELSE "general"

\* white space only
TextBlank == << " ", " " >>

TextShowAllCredits == << "S", "h", "o", "w", " ", "a", "l", "l", " ", "c", "r", "e", "d", "i", "t", "s" >>

TextAnalyze == << "a", "n", "a", "l", "y", "z", "e", " ", "i", "t" >>

TextRecommend == << "r", "e", "c", "o", "m", "m", "e", "n", "d" >>

TextEnergy == << "e", "n", "e", "r", "g", "y", " ", "u", "s", "e" >>

TextHi == << "h", "i" >>

\* a general prompt, typed with white space around it
TextWater == << " ", "w", "a", "t", "e", "r", " " >>


\* what the user types
PagePrompts ==
    { TextBlank, TextShowAllCredits, TextAnalyze, TextRecommend, TextEnergy, TextHi,
      TextWater }

\* ---------------------------------------------------------------------------
\* The demo page: configuration (config.js)
\* ---------------------------------------------------------------------------

LocalUrl == "http://localhost:5000"

\* the URL of a deployed backend, as a deployment sets window.ALBEDO_API_URL
DeployedUrl == "https://albedo-api.example.com"

\* host names the page may be served from
Hostnames ==
    { "localhost", "127.0.0.1", "", "LOCALHOST", "localhost.example.com",
      "192.168.1.10", "aritrode29.github.io" }

\* where the page runs: its host name, window.ALBEDO_API_URL and the autoDetect
\* setting of config.js
Environments ==
    [ hostname : Hostnames, albedoApiUrl : { Undefined, "", DeployedUrl },
      autoDetect : BOOLEAN ]

DefaultEnvironment ==
    [ hostname |-> "localhost", albedoApiUrl |-> Undefined, autoDetect |-> TRUE ]

\* window.ALBEDO_CONFIG.api
AlbedoConfig(env) ==
    [ local      |-> LocalUrl,
      production |-> IF env.albedoApiUrl \in { Undefined, "" } THEN LocalUrl
                     ELSE env.albedoApiUrl,
      autoDetect |-> env.autoDetect ]

\* variant: only the name localhost counts as local
GetApiUrlLocalhostOnly(config, hostname) ==
    IF config.autoDetect
    THEN IF hostname = "localhost" THEN config.local ELSE config.production
    ELSE config.production

\* window.getApiUrl
GetApiUrl(config, hostname) ==
    IF config.autoDetect
    THEN IF hostname = "localhost" \/ hostname = "127.0.0.1" \/ hostname = ""
         THEN config.local ELSE config.production
    ELSE config.production

\* RAG_API_URL of block b
RagApiUrl(b, pg) ==
    IF b = 2 /\ pg.hasConfig THEN GetApiUrl(pg.config, pg.env.hostname) ELSE LocalUrl

\* ---------------------------------------------------------------------------
\* The demo page: chat (script.js)
\* ---------------------------------------------------------------------------

Null == "null"

\* a child of the messages element: its class, what it says, and for an
\* indicator the operation that added it
Message(cls, text) == [ cls |-> cls, text |-> text, op |-> "none", n |-> 0 ]

Indicator(text, op, n) == [ cls |-> "typing", text |-> text, op |-> op, n |-> n ]

\* the page before any script of it has run
FreshPage(env) ==
    [ env              |-> env,
      hasConfig        |-> FALSE,
      config           |-> AlbedoConfig(env),
      loaded           |-> FALSE,
      ragApiUrl        |-> [ b \in Range(Blocks) |-> Undefined ],
      input            |-> << >>,
      messages         |-> << Message("welcome", "welcome") >>,
      suggestions      |-> "flex",
      uploadedDocument |-> [ b \in Range(Blocks) |-> Null ],
      apiHealthy       |-> [ b \in Range(Blocks) |-> FALSE ],
      replies          |-> << >>,
      readers          |-> << >> ]

\* config.js has run
WithConfig(pg) == [ pg EXCEPT !.hasConfig = TRUE ]

\* the three DOMContentLoaded listeners have run
Loaded(pg) ==
    [ pg EXCEPT !.loaded = TRUE, !.ragApiUrl = [ b \in Range(Blocks) |-> RagApiUrl(b, pg) ] ]

\* appendMessage of block b
AppendMessage(pg, b, text, cls) ==
    LET msgs == Append(pg.messages, Message(IF cls = "user" THEN "user" ELSE "bot", text))
    IN  [ pg EXCEPT !.messages = msgs,
                    !.suggestions = IF b # 3 /\ Len(msgs) > 1 THEN "none" ELSE @ ]

\* the bot messages texts, appended by block b one after the other
RECURSIVE AppendAll(_, _, _)
AppendAll(pg, b, texts) ==
    IF texts = << >> THEN pg
    ELSE AppendAll(AppendMessage(pg, b, Head(texts), "bot"), b, Tail(texts))

\* reply n says texts
Say(pg, n, texts) ==
    [ AppendAll(pg, pg.replies[n].block, texts) EXCEPT !.replies[n].said = @ \o texts ]

IsTyping(m) == m.cls = "typing"

\* variant: only an indicator that is the last child is removed
RemoveLastTypingElement(msgs) ==
    IF msgs # << >> /\ IsTyping(msgs[Len(msgs)]) THEN SubSeq(msgs, 1, Len(msgs) - 1)
    ELSE msgs

\* messagesEl.querySelectorAll('.typing').forEach(el => el.remove())
RemoveTypingElements(msgs) == SelectSeq(msgs, LAMBDA m : ~IsTyping(m))

\* the finally of botReply: reply n is over
Finish(pg, n) ==
    [ pg EXCEPT !.messages = RemoveTypingElements(@), !.replies[n].at = "done" ]

\* what a request to the backend comes to: the request failed (rejected or
\* not OK), the reply carries an error, or it carries no list, an empty list
\* or a list with entries
ApiOutcomes == { "failed", "error", "absent", "empty", "some" }

CreditsUsable(o) == o = "some"

QueryUsable(b, o) == IF b = 2 THEN o = "some" ELSE o \in { "empty", "some" }

AssistantUsable(o) == o = "some"

\* the request a reply waits for at a position
RequestAt(at) ==
    CASE at = "credits"   -> "GET /api/credits"
      [] at = "analyze"   -> "POST /api/analyze"
      [] at = "assistant" -> "POST /api/assistant"
      [] at = "probe"     -> "GET /api/status"
      [] OTHER            -> "POST /api/query"

\* reply n sends the request of position at and waits for it
Await(pg, n, at) ==
    [ pg EXCEPT !.replies[n].at = at, !.replies[n].calls = Append(@, RequestAt(at)) ]

\* botReply(prompt) of block b up to its first await
BotReply(pg, b, prompt) ==
    LET n      == Len(pg.replies) + 1
        branch == ReplyBranch(b, prompt)
        shown  == [ pg EXCEPT
                      !.messages = Append(@, Indicator("searching", "reply", n)),
                      !.replies = Append(@, [ block |-> b, prompt |-> prompt,
                                              branch |-> branch, at |-> "start",
                                              calls |-> << >>, said |-> << >>,
                                              got |-> "none", healthy |-> "none" ]) ]
    IN  CASE branch = "credits"   -> Await(shown, n, "credits")
          [] branch = "analyze"   ->
               IF pg.uploadedDocument[b] \notin { Null, "" }
               THEN Await(Say(shown, n, << "analyzing" >>), n, "analyze")
               ELSE Finish(Say(shown, n, << "upload-first" >>), n)
          [] branch = "recommend" -> Await(shown, n, "recommend")
          [] branch = "energy"    -> Await(shown, n, "energy")
          [] branch = "greeting"  -> Finish(Say(shown, n, << "greeting" >>), n)
          [] OTHER                -> Await(shown, n, IF b = 2 THEN "assistant" ELSE "query")

\* what reply n says of a list with entries, per position
ResultTexts(at, o) ==
    CASE at = "credits"   -> << "credits-found", "credit-item", "credits-tip" >>
      [] at = "analyze"   -> IF o = "some"
                             THEN << "analysis-complete", "analysis-credit",
                                     "analysis-requirements", "analysis-score" >>
                             ELSE << "analysis-complete" >>
      [] at = "recommend" -> IF o = "some"
                             THEN << "recommendations", "result-title", "result-text" >>
                             ELSE << "recommendations" >>
      [] at = "energy"    -> IF o = "some"
                             THEN << "energy-requirements", "result-title", "result-text" >>
                             ELSE << "energy-requirements" >>
      [] at = "assistant" -> << "assistant-answer" >>
      [] OTHER            -> << "results" >>

\* botReply after the request it waited for came to o
ReplyContinues(pg, n, o) ==
    LET at  == pg.replies[n].at
        b   == pg.replies[n].block
        got == [ pg EXCEPT !.replies[n].got = o ]
    IN  CASE at = "credits" ->
               IF CreditsUsable(o) THEN Finish(Say(got, n, ResultTexts(at, o)), n)
               ELSE Await(got, n, "probe")
          [] at = "analyze" ->
               IF o \in { "failed", "error" }
               THEN Finish(Say(got, n, << "analysis-failed", "start-api-tip" >>), n)
               ELSE IF o = "absent"
               THEN Finish(Say(got, n, << "error-processing" >>), n)
               ELSE Finish(Say(got, n, ResultTexts(at, o)), n)
          [] at = "recommend" ->
               IF QueryUsable(b, o) THEN Finish(Say(got, n, ResultTexts(at, o)), n)
               ELSE Finish(Say(got, n, << "recommendations-failed", "start-api-tip" >>), n)
          [] at = "energy" ->
               IF QueryUsable(b, o) THEN Finish(Say(got, n, ResultTexts(at, o)), n)
               ELSE Finish(Say(got, n, << "energy-failed", "start-api-tip" >>), n)
          [] at = "assistant" ->
               IF AssistantUsable(o) THEN Finish(Say(got, n, ResultTexts(at, o)), n)
               ELSE Await(got, n, "query")
          [] OTHER ->
               IF QueryUsable(b, o) THEN Finish(Say(got, n, ResultTexts(at, o)), n)
               ELSE Await(got, n, "probe")

\* variant: whatever the probe finds, the reply says the backend is down
ProbeReturnsUnreachable(pg, n, healthy) ==
    LET b      == pg.replies[n].block
        probed == [ pg EXCEPT !.apiHealthy[b] = healthy,
                              !.replies[n].healthy = IF healthy THEN "yes" ELSE "no" ]
    IN  Finish(Say(probed, n, << "not-reachable" >>), n)

\* checkApiStatus of the reply's block has returned healthy
ProbeReturns(pg, n, healthy) ==
    LET b      == pg.replies[n].block
        probed == [ pg EXCEPT !.apiHealthy[b] = healthy,
                              !.replies[n].healthy = IF healthy THEN "yes" ELSE "no" ]
    IN  Finish(Say(probed, n,
                   IF ~healthy THEN << "not-reachable" >>
                   ELSE IF pg.replies[n].branch = "credits" THEN << "no-credit-list" >>
                   ELSE << "guidance" >>), n)

\* variant: the listener leaves the text in the input
SubmitListenerKeepingInput(pg, b) ==
    LET text == Trim(pg.input)
    IN  IF text = << >> THEN pg
        ELSE BotReply(AppendMessage(pg, b, "user-text", "user"), b, text)

\* the submit listener of block b
SubmitListener(pg, b) ==
    LET text == Trim(pg.input)
    IN  IF text = << >> THEN pg
        ELSE BotReply([ AppendMessage(pg, b, "user-text", "user") EXCEPT !.input = << >> ],
                      b, text)

\* a submit event of the form: the listeners of the blocks in their order
RECURSIVE SubmitFrom(_, _)
SubmitFrom(pg, i) ==
    IF i > Len(Blocks) THEN pg ELSE SubmitFrom(SubmitListener(pg, Blocks[i]), i + 1)

SubmitEvent(pg) == SubmitFrom(pg, 1)

\* a click on the send button, or Enter in the input: the listener of every
\* block calls form.requestSubmit()
RECURSIVE RequestSubmitFrom(_, _)
RequestSubmitFrom(pg, i) ==
    IF i > Len(Blocks) THEN pg ELSE RequestSubmitFrom(SubmitEvent(pg), i + 1)

SendClicked(pg) == RequestSubmitFrom(pg, 1)

\* the change listener of block b of the file input, for a file with content
FileListener(pg, b, content) ==
    LET r      == Len(pg.readers) + 1
        reader == [ block |-> b, content |-> content, status |-> "reading" ]
    IN  IF b = 3
        THEN [ AppendMessage(pg, b, "uploaded-file", "bot") EXCEPT
                 !.readers = Append(@, reader) ]
        ELSE [ AppendMessage(pg, b, "uploaded", "user") EXCEPT
                 !.messages = Append(@, Indicator("processing", "reader", r)),
                 !.readers = Append(@, reader) ]

RECURSIVE FileSelectedFrom(_, _, _)
FileSelectedFrom(pg, i, content) ==
    IF i > Len(Blocks) THEN pg
    ELSE FileSelectedFrom(FileListener(pg, Blocks[i], content), i + 1, content)

\* a change event of the file input
FileSelected(pg, content) == FileSelectedFrom(pg, 1, content)

\* loadingDiv.remove() of reader r
RemoveLoading(msgs, r) ==
    SelectSeq(msgs, LAMBDA m : ~(IsTyping(m) /\ m.op = "reader" /\ m.n = r))

\* reader.onload of reader r
ReaderLoaded(pg, r) ==
    LET b      == pg.readers[r].block
        stored == [ pg EXCEPT !.uploadedDocument[b] = pg.readers[r].content,
                              !.readers[r].status = "loaded",
                              !.messages = RemoveLoading(@, r) ]
    IN  IF b = 3
        THEN AppendAll(stored, b, << "document-loaded", "preview-title", "preview",
                                     "ask-now" >>)
        ELSE AppendAll(stored, b, << "document-loaded" >>)

\* reader.onerror of reader r; block 3 sets no onerror
ReaderFailed(pg, r) ==
    LET b      == pg.readers[r].block
        failed == [ pg EXCEPT !.readers[r].status = "failed" ]
    IN  IF b = 3 THEN failed
        ELSE AppendAll([ failed EXCEPT !.messages = RemoveLoading(@, r) ], b,
                       << "read-failed" >>)

\* the click listener of block b of the clear button
ClearListener(pg, b) ==
    IF b = 3
    THEN AppendMessage([ pg EXCEPT !.messages = << >>, !.uploadedDocument[b] = Null ],
                       b, "welcome", "bot")
    ELSE [ pg EXCEPT !.messages = << Message("welcome", "welcome") >>,
                     !.uploadedDocument[b] = Null,
                     !.suggestions = "flex" ]

RECURSIVE ClearFrom(_, _)
ClearFrom(pg, i) ==
    IF i > Len(Blocks) THEN pg ELSE ClearFrom(ClearListener(pg, Blocks[i]), i + 1)

\* a click on the clear button
ClearClicked(pg) == ClearFrom(pg, 1)

\* ------------------------------------------------------------------------
\* State
\* ------------------------------------------------------------------------

VARIABLES
    pc,          \* stage the request has reached
    query,       \* the raw query of the request
    opts,        \* the options of the request
    subqueries,  \* output of the QueryExpander
    lists,       \* the ranked lists handed to the cross-list fusion
    fused,       \* output of the ScoreFuser
    deduped,     \* output of the Deduplicator
    grouped,     \* output of the CreditGrouper (or the deduplicated list)
    response,    \* the ordered list of ResultRecord search() returns
    error,       \* the failure search() returns, "none" when it returns a list
    calls,       \* the backend calls of the request, with status and result
    degraded,    \* the degraded-capability flag of the response
    generation,  \* the snapshot the shared reference points to
    held,        \* the snapshot reference the request took
    reads,       \* the snapshots the request has read from
    requests,    \* the concurrent requests of the service, by request id
    page,        \* the demo page: its scripts' variables and its chat elements
    events       \* number of user events the page has handled

vars == << pc, query, opts, subqueries, lists, fused, deduped, grouped, response, error,
           calls, degraded, generation, held, reads, requests, page, events >>

\* what a request leaves alone once its calls are joined
callVars == << calls, degraded, generation, held >>

DefaultOptions ==
    [ limit |-> MaxLimit, useQueryExpansion |-> TRUE,
      maxSubqueries |-> DefaultMaxSubqueries, useHybrid |-> TRUE,
      fusionMethod |-> "weighted", denseWeight |-> 7, lexicalWeight |-> 3,
      useGrouping |-> TRUE, topCredits |-> DefaultTopCredits,
      maxChunksPerCredit |-> DefaultMaxChunksPerCredit, rrfK |-> DefaultRrfK,
      dedupThreshold |-> DefaultDedupThreshold ]

\* number of requests the service handles at the same time
MaxRequests == 2

RequestIds == 1..MaxRequests

\* a request slot no request has arrived in
IdleRequest ==
    [ pc |-> "idle", query |-> <<>>, opts |-> DefaultOptions, subqueries |-> <<>>,
      calls |-> <<>>, lists |-> <<>>, response |-> <<>> ]

\* what the single-request pipeline leaves alone
otherVars == << requests, page, events >>

\* no concurrent request has arrived
RequestsIdle == requests = [ r \in RequestIds |-> IdleRequest ]

\* no script of the page has run
PageFresh ==
    /\ page = FreshPage(DefaultEnvironment)
    /\ events = 0

OthersIdle == RequestsIdle /\ PageFresh

\* the option settings a request of the model may carry
RequestOptions ==
    { [ DefaultOptions EXCEPT
          !.limit = l, !.useQueryExpansion = e, !.maxSubqueries = ms,
          !.useHybrid = h, !.fusionMethod = fm, !.useGrouping = g,
          !.topCredits = tc, !.maxChunksPerCredit = mc, !.rrfK = k ] :
        l \in 1..MaxLimit, e \in BOOLEAN, ms \in {2, DefaultMaxSubqueries},
        h \in BOOLEAN, fm \in {"weighted", "rrf"}, g \in BOOLEAN,
        tc \in (MinTopCredits - 1)..(MaxTopCredits + 1),
        mc \in 1..MaxChunksBound, k \in {0, 1} }

\* no request has arrived
PipelineIdle ==
    /\ pc = "idle"
    /\ query = <<>>
    /\ opts = DefaultOptions
    /\ subqueries = <<>>
    /\ lists = <<>>
    /\ fused = <<>>
    /\ deduped = <<>>
    /\ grouped = <<>>
    /\ response = <<>>
    /\ error = "none"
    /\ calls = <<>>
    /\ degraded = FALSE
    /\ generation = 0
    /\ held = 0
    /\ reads = {}

Init == PipelineIdle /\ OthersIdle

\* search(q, o) up to the fan-out: validation, the snapshot reference taken,
\* then query expansion, for a request that arrives with query q and options o
Request(q, o) ==
    /\ query' = q
    /\ opts' = o
    /\ held' = generation
    /\ IF ValidOptions(o)
       THEN /\ subqueries' = IF o.useQueryExpansion
                             THEN ExpandQuery(q, o.maxSubqueries)
                             ELSE << q >>
            /\ pc' = "expanded"
            /\ error' = "none"
       ELSE /\ subqueries' = <<>>
            /\ pc' = "failed"
            /\ error' = "ConfigurationError"
    /\ UNCHANGED << lists, fused, deduped, grouped, response, calls, degraded,
                    generation, reads >>
    /\ UNCHANGED otherVars

\* search(query, options): validation, then query expansion
Search ==
    /\ pc = "idle"
    /\ \E q \in Queries, o \in RequestOptions : Request(q, o)

\* retrieval for every sub-query, with the intra-list weighting, of a request
\* whose backend calls all answer
Retrieve ==
    /\ pc = "expanded"
    /\ lists' = RetrieveAll(subqueries, opts)
    /\ reads' = reads \cup { SnapshotRead(held, generation) }
    /\ pc' = "retrieved"
    /\ UNCHANGED << query, opts, subqueries, fused, deduped, grouped, response, error >>
    /\ UNCHANGED callVars
    /\ UNCHANGED otherVars

\* the fan-out: one call per sub-query and backend
Dispatch ==
    /\ pc = "expanded"
    /\ calls' = DispatchCalls(subqueries, opts)
    /\ pc' = "dispatched"
    /\ UNCHANGED << query, opts, subqueries, lists, fused, deduped, grouped, response,
                    error, degraded, generation, held, reads >>
    /\ UNCHANGED otherVars

\* a pending call ends with the given status and result
Settle(n, status, items) ==
    /\ n \in DOMAIN calls
    /\ calls[n].status = "pending"
    /\ calls' = [ calls EXCEPT ![n].status = status, ![n].items = items ]
    /\ UNCHANGED << pc, query, opts, subqueries, lists, fused, deduped, grouped,
                    response, error, degraded, generation, held >>
    /\ UNCHANGED otherVars

\* a backend answers a call from the snapshot the request reads
CallReturns ==
    \E n \in DOMAIN calls :
        /\ Settle(n, "returned", BackendAnswer(calls[n], subqueries, opts))
        /\ reads' = reads \cup { SnapshotRead(held, generation) }

\* a backend is absent or raises: the call contributes an empty list
CallFails ==
    \E n \in DOMAIN calls : Settle(n, "failed", <<>>) /\ UNCHANGED reads

\* variant: a call has no timeout, a pending call waits for its backend
CallWaitsForBackend ==
    \E n \in DOMAIN calls : calls[n].status = "pending" /\ UNCHANGED vars

\* the timeout of a call expires: the call contributes an empty list
CallTimesOut ==
    \E n \in DOMAIN calls : Settle(n, "timedout", <<>>) /\ UNCHANGED reads

\* the join point in front of the fusion
Join ==
    /\ pc = "dispatched"
    /\ AllCallsSettled(calls)
    /\ lists' = JoinLists(calls, 1, Len(subqueries), opts)
    /\ degraded' = Degraded(calls)
    /\ error' = RequestError(calls)
    /\ pc' = IF RequestError(calls) = "none" THEN "retrieved" ELSE "failed"
    /\ UNCHANGED << query, opts, subqueries, fused, deduped, grouped, response,
                    calls, generation, held, reads >>
    /\ UNCHANGED otherVars

\* the offline corpus build swaps a new snapshot in
Rebuild ==
    /\ generation < MaxRebuilds
    /\ generation' = generation + 1
    /\ UNCHANGED << pc, query, opts, subqueries, lists, fused, deduped, grouped,
                    response, error, calls, degraded, held, reads >>
    /\ UNCHANGED otherVars

\* cross-list fusion
Fuse ==
    /\ pc = "retrieved"
    /\ fused' = ReciprocalRankFusion(lists, opts.rrfK)
    /\ pc' = "fused"
    /\ UNCHANGED << query, opts, subqueries, lists, deduped, grouped, response, error >>
    /\ UNCHANGED << callVars, reads >>
    /\ UNCHANGED otherVars

Deduplicate ==
    /\ pc = "fused"
    /\ deduped' = RemoveNearDuplicates(fused, opts.dedupThreshold)
    /\ reads' = reads \cup { SnapshotRead(held, generation) }
    /\ pc' = "deduped"
    /\ UNCHANGED << query, opts, subqueries, lists, fused, grouped, response, error >>
    /\ UNCHANGED callVars
    /\ UNCHANGED otherVars

Group ==
    /\ pc = "deduped"
    /\ grouped' = IF opts.useGrouping
                  THEN GroupAndSelect(deduped, opts.topCredits, opts.maxChunksPerCredit)
                  ELSE deduped
    /\ reads' = reads \cup { SnapshotRead(held, generation) }
    /\ pc' = "grouped"
    /\ UNCHANGED << query, opts, subqueries, lists, fused, deduped, response, error >>
    /\ UNCHANGED callVars
    /\ UNCHANGED otherVars

Assemble ==
    /\ pc = "grouped"
    /\ response' = AssembleResponse(grouped, opts.limit)
    /\ reads' = reads \cup { SnapshotRead(held, generation) }
    /\ pc' = "done"
    /\ UNCHANGED << query, opts, subqueries, lists, fused, deduped, grouped, error >>
    /\ UNCHANGED callVars
    /\ UNCHANGED otherVars

Next == Search \/ Retrieve \/ Fuse \/ Deduplicate \/ Group \/ Assemble

Spec == Init /\ [][Next]_vars

\* ------------------------------------------------------------------------
\* The fusion stage on its own: cross-list fusion of any ranked lists
\* ------------------------------------------------------------------------

\* chunks the freely ranked lists are made of
FuseIds == { 1, 3 }

\* sub-queries whose dense lists are among the fused lists
FuseSubqueries ==
    { <<"EA", "minimum", "energy", "performance", "requirements">>,
      <<"EA", "optimize", "energy", "performance", "requirements">>,
      <<"energy", "efficiency", "requirements">> }

\* a list of the given chunks in the given order, as a keyword backend
\* returns it
RankedListOf(ids) ==
    [ origin |-> "lexical",
      items  |-> [ i \in DOMAIN ids |->
                     [chunk_id |-> ids[i], score |-> Len(ids) + 1 - i,
                      dense |-> NoDense] ] ]

FusePool ==
    { RankedListOf(ids) : ids \in DistinctSeqs(FuseIds, MaxTopK) }
    \cup { DenseSearch(q, MaxTopK) : q \in FuseSubqueries }

\* the RRF constants of the fusion specification
FuseKs == { 0, 1, DefaultRrfK }

RECURSIVE SeqsUpTo(_, _)
SeqsUpTo(S, n) ==
    IF n = 0 THEN { <<>> }
    ELSE LET shorter == SeqsUpTo(S, n - 1)
         IN  shorter \cup { Append(s, x) : s \in shorter, x \in S }

InitFuse ==
    /\ pc = "retrieved"
    /\ query = <<>>
    /\ opts \in { [ DefaultOptions EXCEPT !.rrfK = k ] : k \in FuseKs }
    /\ subqueries = <<>>
    /\ lists \in SeqsUpTo(FusePool, MaxLists)
    /\ fused = <<>>
    /\ deduped = <<>>
    /\ grouped = <<>>
    /\ response = <<>>
    /\ error = "none"
    /\ calls = <<>>
    /\ degraded = FALSE
    /\ generation = 0
    /\ held = 0
    /\ reads = {}
    /\ OthersIdle

NextFuse == Fuse

SpecFuse == InitFuse /\ [][NextFuse]_vars

\* ------------------------------------------------------------------------
\* The stages behind the fusion on their own: any fused list, deduplicated,
\* grouped and assembled
\* ------------------------------------------------------------------------

\* chunks the fused lists are made of: the passages of EA-p2 and one chunk
\* of each of three further credits
StageIds == { 1, 2, 3, 4, 5, 6, 8, 9 }

\* a fused list of the given chunks, best first
FusedListOf(ids) ==
    [ i \in DOMAIN ids |->
        [chunk_id |-> ids[i], fused_score |-> Len(ids) + 1 - i, dense |-> NoDense] ]

\* deduplication thresholds of the stage specification, in thousandths
StageThresholds == { 950, DefaultDedupThreshold, 995 }

InitStage ==
    /\ pc = "fused"
    /\ query = <<>>
    /\ opts \in { [ DefaultOptions EXCEPT !.dedupThreshold = t ] : t \in StageThresholds }
    /\ subqueries = <<>>
    /\ lists = <<>>
    /\ fused \in { FusedListOf(ids) : ids \in DistinctSeqs(StageIds, MaxFusedLen) }
    /\ deduped = <<>>
    /\ grouped = <<>>
    /\ response = <<>>
    /\ error = "none"
    /\ calls = <<>>
    /\ degraded = FALSE
    /\ generation = 0
    /\ held = 0
    /\ reads = {}
    /\ OthersIdle

NextStage == Deduplicate \/ Group \/ Assemble

SpecStage == InitStage /\ [][NextStage]_vars

\* ------------------------------------------------------------------------
\* The grouping of fused lists in which chunks share scores
\* ------------------------------------------------------------------------

\* chunks the scored lists are made of: three sections of EA-p2 and one chunk
\* of each of three further credits
GroupIds == { 1, 4, 5, 6, 8, 9 }

\* the fused scores the chunks may carry
GroupScores == { 1, 2 }

\* the assignments of a score to each chunk of a set of at most n chunks
ScoreAssignments(n) ==
    UNION { [ S -> GroupScores ] : S \in { T \in SUBSET GroupIds : Cardinality(T) <= n } }

\* the fused list of the chunks with the given scores, ranked as the
\* ScoreFuser ranks it
ScoredListOf(sc) ==
    LET ids   == FilterSeq(ChunkIdSeq, DOMAIN sc)
        items == [ i \in DOMAIN ids |->
                     [chunk_id |-> ids[i], score |-> sc[ids[i]], dense |-> NoDense] ]
        best  == SortItems(items)
    IN  [ i \in DOMAIN best |->
            [chunk_id |-> best[i].chunk_id, fused_score |-> best[i].score,
             dense |-> best[i].dense] ]

InitGroup ==
    /\ pc = "fused"
    /\ query = <<>>
    /\ opts \in { [ DefaultOptions EXCEPT !.topCredits = tc, !.maxChunksPerCredit = mc ] :
                    tc \in MinTopCredits..MaxTopCredits, mc \in 1..MaxChunksBound }
    /\ subqueries = <<>>
    /\ lists = <<>>
    /\ fused \in { ScoredListOf(sc) : sc \in ScoreAssignments(MaxFusedLen) }
    /\ deduped = <<>>
    /\ grouped = <<>>
    /\ response = <<>>
    /\ error = "none"
    /\ calls = <<>>
    /\ degraded = FALSE
    /\ generation = 0
    /\ held = 0
    /\ reads = {}
    /\ OthersIdle

NextGroup == Deduplicate \/ Group \/ Assemble

SpecGroup == InitGroup /\ [][NextGroup]_vars

\* ------------------------------------------------------------------------
\* The query expansion on its own: any short query, any maxSubqueries
\* ------------------------------------------------------------------------

\* words the queries are made of: credit codes, category keywords, a section
\* name and a word no rule knows
ExpandTokens == { "EA", "WE", "energy", "water", "requirements", "plan" }

\* the queries of at most MaxQueryLen words, the empty query among them
ExpandQueries == SeqsUpTo(ExpandTokens, MaxQueryLen)

\* max_subqueries from 1 to beyond the default
ExpandLimits == 1..(DefaultMaxSubqueries + 2)

SearchExpand ==
    /\ pc = "idle"
    /\ \E q \in ExpandQueries, ms \in ExpandLimits :
           Request(q, [ DefaultOptions EXCEPT !.maxSubqueries = ms ])

NextExpand == SearchExpand

SpecExpand == Init /\ [][NextExpand]_vars

\* ------------------------------------------------------------------------
\* One request with its backend calls dispatched one by one, each of them
\* free to return, fail or time out, while the index is rebuilt
\* ------------------------------------------------------------------------

CallQueries ==
    { <<"EA", "minimum", "energy", "performance">>,
      <<"design", "intent">> }

\* option settings of the requests: with and without expansion and hybrid
\* retrieval, both fusion methods, and three invalid settings
CallOptions ==
    { [ DefaultOptions EXCEPT
          !.useQueryExpansion = e, !.maxSubqueries = 2, !.useHybrid = h,
          !.fusionMethod = fm, !.rrfK = 1 ] :
        e \in BOOLEAN, h \in BOOLEAN, fm \in {"weighted", "rrf"} }
    \cup { [ DefaultOptions EXCEPT !.topCredits = MinTopCredits - 1 ],
           [ DefaultOptions EXCEPT !.topCredits = MaxTopCredits + 1 ],
           [ DefaultOptions EXCEPT !.denseWeight = 0 - 1 ] }

SearchCalls ==
    /\ pc = "idle"
    /\ \E q \in CallQueries, o \in CallOptions : Request(q, o)

NextCalls ==
    \/ SearchCalls
    \/ Dispatch
    \/ CallReturns
    \/ CallFails
    \/ CallTimesOut
    \/ Join
    \/ Fuse
    \/ Deduplicate
    \/ Group
    \/ Assemble
    \/ Rebuild

SpecCalls == Init /\ [][NextCalls]_vars

\* ------------------------------------------------------------------------
\* Properties of search()
\* ------------------------------------------------------------------------

CreditsIn(records) == { records[i].credit_id : i \in DOMAIN records }

ChunksOfCredit(records, credit) ==
    Cardinality({ i \in DOMAIN records : records[i].credit_id = credit })

\* at most topCredits credits, at most maxChunksPerCredit chunks of each
WithinGroupBounds(records, o) ==
    /\ Cardinality(CreditsIn(records)) <= o.topCredits
    /\ \A cr \in CreditsIn(records) : ChunksOfCredit(records, cr) <= o.maxChunksPerCredit

GroupedRecords == [ i \in DOMAIN grouped |-> ResultRecord(grouped[i]) ]

StrictlyDominant ==
    /\ fused # <<>>
    /\ Len(fused) >= 2 => fused[1].fused_score > fused[2].fused_score

\* C10 as stated: a chunk whose fused score strictly dominates is the first
\* record search() returns.
C10_DominantChunkFirst ==
    (pc = "done" /\ StrictlyDominant) =>
        /\ response # <<>>
        /\ response[1].chunk_id = fused[1].chunk_id

\* a surviving chunk of the dominant chunk's credit whose section has a higher
\* priority
OutrankedBySection ==
    \E i \in DOMAIN deduped :
        /\ Corpus[deduped[i].chunk_id].credit_id = Corpus[fused[1].chunk_id].credit_id
        /\ SectionPriority[Corpus[deduped[i].chunk_id].section]
             > SectionPriority[Corpus[fused[1].chunk_id].section]

\* C10, amended: a chunk whose fused score strictly dominates puts its credit
\* first (the first record carries its credit_id), and it is itself the first
\* record when grouping is off or no surviving chunk of its credit has a
\* section of higher priority.
C10_DominantCreditFirst ==
    (pc = "done" /\ StrictlyDominant) =>
        /\ response # <<>>
        /\ response[1].credit_id = Corpus[fused[1].chunk_id].credit_id
        /\ (~opts.useGrouping \/ ~OutrankedBySection) =>
               response[1].chunk_id = fused[1].chunk_id

\* a grouped response of several credits led by the dominant chunk
C10_Witness ==
    /\ pc = "done"
    /\ StrictlyDominant
    /\ opts.useGrouping
    /\ Cardinality(CreditsIn(response)) >= 2
    /\ Cardinality(CreditsOf(deduped)) > opts.topCredits
    /\ response[1].chunk_id = fused[1].chunk_id

\* ------------------------------------------------------------------------
\* Properties of the CreditGrouper
\* ------------------------------------------------------------------------

CreditOfChunk(r) == Corpus[r.chunk_id].credit_id

\* the highest fused score among the deduplicated chunks of a credit
BestScoreOf(credit) ==
    LET scores == { deduped[i].fused_score :
                      i \in { n \in DOMAIN deduped : CreditOfChunk(deduped[n]) = credit } }
    IN  CHOOSE m \in scores : \A x \in scores : m >= x

\* credit a stands before credit b: higher representative score, equal
\* scores by credit_id ascending
GroupBefore(a, b) ==
    \/ BestScoreOf(a) > BestScoreOf(b)
    \/ BestScoreOf(a) = BestScoreOf(b) /\ CreditIndex(a) < CreditIndex(b)

GrouperHasRun == opts.useGrouping /\ pc \in {"grouped", "done"}

\* C13: the CreditGrouper keeps the topCredits credits of highest
\* representative score (all of them when there are no more than topCredits),
\* the representative score of a credit being the highest fused score of its
\* chunks, and emits the groups one after the other by representative score
\* descending, equal scores by credit_id ascending; four credits with
\* topCredits = 3 leave exactly the best three, in that order.
C13_TopCreditsByRepresentativeScore ==
    GrouperHasRun =>
        LET present == CreditsOf(deduped)
            kept    == CreditsOf(grouped)
        IN  /\ kept \subseteq present
            /\ Cardinality(kept) = Min(opts.topCredits, Cardinality(present))
            /\ \A a \in kept : \A b \in present \ kept : GroupBefore(a, b)
            /\ \A i, j \in DOMAIN grouped :
                 i < j => \/ CreditOfChunk(grouped[i]) = CreditOfChunk(grouped[j])
                          \/ GroupBefore(CreditOfChunk(grouped[i]),
                                         CreditOfChunk(grouped[j]))
            /\ (Cardinality(present) = 4 /\ opts.topCredits = 3) =>
                 /\ Cardinality(kept) = 3
                 /\ \A b \in present \ kept : \A a \in kept :
                      BestScoreOf(b) <= BestScoreOf(a)

\* four credits after deduplication and topCredits = 3: three groups are
\* kept; two kept credits have the same representative score, and the dropped
\* credit ties with a kept one
C13_Witness ==
    /\ pc = "grouped"
    /\ opts.useGrouping
    /\ opts.topCredits = 3
    /\ Cardinality(CreditsOf(deduped)) = 4
    /\ Cardinality(CreditsOf(grouped)) = 3
    /\ \E a, b \in CreditsOf(grouped) : a # b /\ BestScoreOf(a) = BestScoreOf(b)
    /\ \E a \in CreditsOf(grouped) : \E b \in CreditsOf(deduped) \ CreditsOf(grouped) :
         BestScoreOf(a) = BestScoreOf(b)

\* requirements > intent > documentation > calc > thresholds > definitions >
\* unknown, as the position in the fixed order
SectionOrder ==
    << "requirements", "intent", "documentation", "calc", "thresholds",
       "definitions", "unknown" >>

SectionRank(r) ==
    CHOOSE n \in DOMAIN SectionOrder : SectionOrder[n] = Corpus[r.chunk_id].section

\* the chunks of a credit in a list of results
MembersOf(results, credit) ==
    { results[i] : i \in { n \in DOMAIN results : CreditOfChunk(results[n]) = credit } }

\* C14: within every surviving credit group the chunks stand in the fixed
\* section priority order requirements > intent > documentation > calc >
\* thresholds > definitions > unknown, and the group is cut to
\* maxChunksPerCredit chunks from the front of that order: no dropped chunk of
\* the credit has a section of higher priority than a kept one.
C14_SectionPriorityWithinGroup ==
    GrouperHasRun =>
        /\ \A i, j \in DOMAIN grouped :
             (i < j /\ CreditOfChunk(grouped[i]) = CreditOfChunk(grouped[j]))
                 => SectionRank(grouped[i]) <= SectionRank(grouped[j])
        /\ \A cr \in CreditsOf(grouped) :
             LET all  == MembersOf(deduped, cr)
                 kept == MembersOf(grouped, cr)
             IN  /\ kept \subseteq all
                 /\ Cardinality(kept) = Min(opts.maxChunksPerCredit, Cardinality(all))
                 /\ \A a \in kept : \A b \in all \ kept :
                      SectionRank(a) <= SectionRank(b)

\* a credit with three chunks cut to two: the dropped chunk has the highest
\* fused score of the three, and the two kept chunks stand in section order
C14_Witness ==
    /\ pc = "grouped"
    /\ opts.useGrouping
    /\ opts.maxChunksPerCredit = 2
    /\ \E cr \in CreditsOf(grouped) :
         LET all  == MembersOf(deduped, cr)
             kept == MembersOf(grouped, cr)
         IN  /\ Cardinality(all) = 3
             /\ Cardinality(kept) = 2
             /\ \E b \in all \ kept : \A a \in kept :
                  /\ b.fused_score > a.fused_score
                  /\ SectionRank(a) < SectionRank(b)
             /\ \E a1, a2 \in kept : SectionRank(a1) < SectionRank(a2)

\* ------------------------------------------------------------------------
\* Properties of the cross-list fusion
\* ------------------------------------------------------------------------

\* indices of the lists that hold chunk c
ListsHolding(c) == { j \in DOMAIN lists : c \in IdsOf(lists[j]) }

RankIn(j, c) == PositionOf(lists[j], c)

\* the unit of the fused scores: scores are multiples of 1 / FusedScale
FusedScale == RrfScale(opts.rrfK, LongestList(lists))

AllCandidates == UNION { IdsOf(lists[j]) : j \in DOMAIN lists }

\* C3: each unique chunk of the fused list scores the sum, over the lists that
\* hold it, of 1 / (k + rank in that list), a list without the chunk adding
\* nothing, and the fused list is sorted by that score descending; a chunk at
\* rank 1 of one list and rank 3 of another scores 1/61 + 1/63 with k = 60.
C3_RrfScoreIsSumOfReciprocalRanks ==
    pc = "fused" =>
        /\ { fused[i].chunk_id : i \in DOMAIN fused } = AllCandidates
        /\ Len(fused) = Cardinality(AllCandidates)
        /\ \A i \in DOMAIN fused :
             LET c == fused[i].chunk_id
                 k == opts.rrfK
             IN  /\ \A j \in ListsHolding(c) :
                        (FusedScale \div (k + RankIn(j, c))) * (k + RankIn(j, c)) = FusedScale
                 /\ fused[i].fused_score =
                        SumOver(ListsHolding(c),
                                [ j \in ListsHolding(c) |-> FusedScale \div (k + RankIn(j, c)) ])
                 /\ ( /\ k = 60
                      /\ Cardinality(ListsHolding(c)) = 2
                      /\ { RankIn(j, c) : j \in ListsHolding(c) } = {1, 3} )
                    => fused[i].fused_score * 61 * 63 = FusedScale * (61 + 63)
        /\ \A i, j \in DOMAIN fused :
             i < j => fused[i].fused_score >= fused[j].fused_score

\* with k = 60, a chunk at rank 1 of one list and rank 3 of another, absent
\* from a third list
C3_Witness ==
    /\ pc = "fused"
    /\ opts.rrfK = 60
    /\ Len(lists) = 3
    /\ \E i \in DOMAIN fused :
         LET c == fused[i].chunk_id
         IN  /\ Cardinality(ListsHolding(c)) = 2
             /\ { RankIn(j, c) : j \in ListsHolding(c) } = {1, 3}
             /\ \E j \in DOMAIN lists : lists[j].items # <<>> /\ j \notin ListsHolding(c)

PermutedLists(p) == [ j \in DOMAIN lists |-> lists[p[j]] ]

\* C4: the RRF score of every chunk, and the fused ranking, is the same for
\* every order in which the ranked lists are supplied to the fuser.
C4_FusionIgnoresListOrder ==
    pc = "fused" =>
        \A p \in Permutations(DOMAIN lists) :
            ReciprocalRankFusion(PermutedLists(p), opts.rrfK) = fused

\* lists that differ, fused into a ranking with two chunks of equal score
C4_Witness ==
    /\ pc = "fused"
    /\ Len(lists) >= 2
    /\ \E p \in Permutations(DOMAIN lists) : PermutedLists(p) # lists
    /\ \E i, j \in DOMAIN fused :
         /\ i < j
         /\ fused[i].fused_score = fused[j].fused_score
         /\ \E a, b \in DOMAIN lists :
              /\ a < b
              /\ fused[j].chunk_id \in IdsOf(lists[a])
              /\ fused[i].chunk_id \notin IdsOf(lists[a])

\* C5: within one ranked list the contribution of a rank is strictly greater
\* than the contribution of every larger rank, for every k >= 0; a single
\* list is therefore fused into itself with strictly falling scores.
C5_ContributionStrictlyDecreasing ==
    pc = "fused" =>
        /\ \A j \in DOMAIN lists :
             \A r1, r2 \in DOMAIN lists[j].items :
                 r1 < r2 =>
                     RrfContribution(opts.rrfK, r1, FusedScale)
                       > RrfContribution(opts.rrfK, r2, FusedScale)
        /\ Len(lists) = 1 =>
             /\ [ i \in DOMAIN fused |-> fused[i].chunk_id ]
                  = [ i \in DOMAIN lists[1].items |-> lists[1].items[i].chunk_id ]
             /\ \A i \in DOMAIN fused :
                  i < Len(fused) => fused[i].fused_score > fused[i + 1].fused_score

\* one list of at least three ranks fused with k = 0
C5_Witness ==
    /\ pc = "fused"
    /\ opts.rrfK = 0
    /\ Len(lists) = 1
    /\ Len(fused) >= 3

\* the best raw dense similarity the lists report for chunk c
RawDense(c) ==
    LET found == { lists[j].items[RankIn(j, c)].dense : j \in ListsHolding(c) }
    IN  CHOOSE d \in found : \A x \in found : d >= x

\* a ranks strictly before b: higher fused score, then higher raw dense
\* similarity, then smaller chunk_id
RanksBefore(a, b) ==
    \/ a.fused_score > b.fused_score
    \/ a.fused_score = b.fused_score /\ a.dense > b.dense
    \/ a.fused_score = b.fused_score /\ a.dense = b.dense /\ a.chunk_id < b.chunk_id

\* C11: the fused ranking is a total order: every chunk stands strictly
\* before every later one by fused score descending, then by higher raw dense
\* similarity, then by smaller chunk_id; no two entries compare equal, so the
\* same lists and options always give the same ranking.
C11_FusedRankingTotalOrder ==
    pc = "fused" =>
        /\ \A i \in DOMAIN fused : fused[i].dense = RawDense(fused[i].chunk_id)
        /\ \A i, j \in DOMAIN fused :
             /\ i < j => RanksBefore(fused[i], fused[j])
             /\ i # j => fused[i].chunk_id # fused[j].chunk_id

\* a fused ranking with a tie in score settled by the raw dense similarity
\* in favour of the larger chunk_id, and a tie in both settled by chunk_id
\* against the order in which the lists brought the chunks up
C11_Witness ==
    /\ pc = "fused"
    /\ \E i, j \in DOMAIN fused :
         /\ i < j
         /\ fused[i].fused_score = fused[j].fused_score
         /\ fused[i].dense > fused[j].dense
         /\ fused[i].chunk_id > fused[j].chunk_id
    /\ \E i, j \in DOMAIN fused :
         /\ i < j
         /\ fused[i].fused_score = fused[j].fused_score
         /\ fused[i].dense = fused[j].dense
         /\ \E a, b \in DOMAIN lists :
              /\ a < b
              /\ fused[j].chunk_id \in IdsOf(lists[a])
              /\ fused[i].chunk_id \notin IdsOf(lists[a])

\* ------------------------------------------------------------------------
\* Properties of the intra-list weighting
\* ------------------------------------------------------------------------

\* the two backend lists of sub-query i
DenseListOf(i) == DenseSearch(subqueries[i], CandidateCount(opts.limit))

LexicalListOf(i) == LexicalSearch(subqueries[i], CandidateCount(opts.limit))

RawScore(list, c) == list.items[PositionOf(list, c)].score

Lowest(list) == CHOOSE m \in ScoresOf(list) : \A x \in ScoresOf(list) : m <= x

Highest(list) == CHOOSE m \in ScoresOf(list) : \A x \in ScoresOf(list) : m >= x

\* min-max scaling of chunk c in a list is ScaledNum / ScaledDen
ScaledDen(list) ==
    IF list.items = <<>> \/ Highest(list) = Lowest(list) THEN 1
    ELSE Highest(list) - Lowest(list)

ScaledNum(list, c) ==
    IF Highest(list) = Lowest(list) THEN 1 ELSE RawScore(list, c) - Lowest(list)

WeightedRequest ==
    /\ pc = "retrieved"
    /\ opts.useHybrid
    /\ opts.fusionMethod = "weighted"

Deduplicated == pc \in {"deduped", "grouped", "done"}

IdsIn(results) == { results[i].chunk_id : i \in DOMAIN results }

\* what Rule A alone keeps of the fused list
KeptByRuleA == ApplyRuleA(fused, opts.dedupThreshold)

SameCreditSection(a, b) ==
    /\ Corpus[a].credit_id = Corpus[b].credit_id
    /\ Corpus[a].section = Corpus[b].section

\* same credit and section, cosine similarity strictly above the threshold
NearDuplicates(a, b) ==
    /\ SameCreditSection(a, b)
    /\ CosineSimilarity(a, b) > opts.dedupThreshold * VecNorm

SamePages(a, b) ==
    /\ Corpus[a].source_document = Corpus[b].source_document
    /\ Corpus[a].page_start = Corpus[b].page_start
    /\ Corpus[a].page_end = Corpus[b].page_end

\* r is a subsequence of s: the elements of r, in the order of s
IsSubsequence(r, s) == r = FilterSeq(s, Range(r))

\* C6: the Deduplicator applied to its own output returns that output
\* unchanged: no further item is removed and the order is kept.
C6_DeduplicationIdempotent ==
    Deduplicated =>
        /\ RemoveNearDuplicates(deduped, opts.dedupThreshold) = deduped
        /\ IsSubsequence(deduped, fused)

\* an output of at least two chunks from which each rule has removed one
C6_Witness ==
    /\ pc = "deduped"
    /\ Len(KeptByRuleA) < Len(fused)
    /\ Len(deduped) < Len(KeptByRuleA)
    /\ Len(deduped) >= 2

FirstOnPages(results, c) ==
    results[CHOOSE i \in DOMAIN results :
                /\ SamePages(results[i].chunk_id, c)
                /\ \A h \in DOMAIN results :
                       SamePages(results[h].chunk_id, c) => i <= h].chunk_id

NoSharedPages(results) ==
    \A i, j \in DOMAIN results :
        i # j => ~SamePages(results[i].chunk_id, results[j].chunk_id)

\* C8: no two chunks of the output share source_document and page range; of
\* the chunks that share them when Rule B runs, the highest-scored one is
\* retained and the others are dropped; and Rule B runs after Rule A, on what
\* Rule A kept, so a chunk that Rule A removed costs no other chunk its place.
C8_RuleB ==
    Deduplicated =>
        /\ NoSharedPages(deduped)
        /\ IsSubsequence(deduped, KeptByRuleA)
        /\ \A i \in DOMAIN KeptByRuleA :
             KeptByRuleA[i].chunk_id \in IdsIn(deduped)
               <=> FirstOnPages(KeptByRuleA, KeptByRuleA[i].chunk_id)
                     = KeptByRuleA[i].chunk_id

\* Rule B has dropped the lower-scored chunk of a pair, and has kept a chunk
\* whose only partner on the same pages Rule A had removed
C8_Witness ==
    /\ pc = "deduped"
    /\ \E i, j \in DOMAIN KeptByRuleA :
         /\ i < j
         /\ SamePages(KeptByRuleA[i].chunk_id, KeptByRuleA[j].chunk_id)
         /\ KeptByRuleA[i].chunk_id \in IdsIn(deduped)
         /\ KeptByRuleA[j].chunk_id \notin IdsIn(deduped)
    /\ \E i, j \in DOMAIN fused :
         /\ i < j
         /\ SamePages(fused[i].chunk_id, fused[j].chunk_id)
         /\ fused[i].chunk_id \notin IdsIn(KeptByRuleA)
         /\ fused[j].chunk_id \in IdsIn(deduped)

\* C9: after deduplication with the default threshold at most one chunk of
\* any (credit_id, section) pair remains.
C9_OnePerCreditSection ==
    (Deduplicated /\ opts.dedupThreshold = DefaultDedupThreshold) =>
        \A i, j \in DOMAIN deduped :
            i # j => ~SameCreditSection(deduped[i].chunk_id, deduped[j].chunk_id)

\* ------------------------------------------------------------------------
\* Properties of the fan-out and the join
\* ------------------------------------------------------------------------

\* the request has dispatched its calls and left the join point behind
PastJoin == calls # <<>> /\ pc # "dispatched"

Backends == { "dense", "lexical" }

\* every call of backend b failed or timed out, every other call returned
OnlyBackendDown(b) ==
    /\ opts.useHybrid
    /\ calls # <<>>
    /\ \A n \in DOMAIN calls :
         IF calls[n].backend = b
         THEN calls[n].status \in {"failed", "timedout"}
         ELSE calls[n].status = "returned"

\* what the other backend alone finds for every sub-query
RemainingLists(b) ==
    [ i \in DOMAIN subqueries |->
        IF b = "lexical" THEN DenseListOf(i) ELSE LexicalListOf(i) ]

\* C15: when the calls of exactly one backend fail or time out, that backend
\* contributes empty lists, the response is flagged as degraded, and the
\* request does not fail: the fused ranking is the one of the remaining
\* backend's lists alone, and a response is returned that is not empty when
\* the remaining backend found anything.
C15_DegradesToRemainingBackend ==
    \A b \in Backends :
        (PastJoin /\ OnlyBackendDown(b)) =>
            /\ error = "none"
            /\ pc # "failed"
            /\ degraded
            /\ \A n \in DOMAIN calls : calls[n].backend = b => calls[n].items = <<>>
            /\ \A j \in DOMAIN lists :
                 lists[j].origin = b => lists[j].items = <<>>
            /\ pc # "retrieved" =>
                 fused = ReciprocalRankFusion(RemainingLists(b), opts.rrfK)
            /\ ( /\ pc = "done"
                 /\ \E i \in DOMAIN subqueries : RemainingLists(b)[i].items # <<>> )
               => response # <<>>

\* a returned response of a request with two sub-queries whose lexical calls
\* failed or timed out and whose dense calls returned
C15_Witness ==
    /\ pc = "done"
    /\ OnlyBackendDown("lexical")
    /\ Len(subqueries) = 2
    /\ \E n \in DOMAIN calls : calls[n].status = "timedout"
    /\ \E n \in DOMAIN calls : calls[n].status = "failed"
    /\ degraded
    /\ response # <<>>

\* every call of the request failed or timed out
EveryCallDown ==
    /\ calls # <<>>
    /\ \A n \in DOMAIN calls : calls[n].status \in {"failed", "timedout"}

\* C16: when every backend call of a request fails or times out, every list
\* is empty, nothing is fused, and search() returns the empty list without
\* an error.
C16_AllBackendsDownGivesEmptyList ==
    (PastJoin /\ EveryCallDown) =>
        /\ error = "none"
        /\ pc # "failed"
        /\ \A j \in DOMAIN lists : lists[j].items = <<>>
        /\ fused = <<>>
        /\ deduped = <<>>
        /\ grouped = <<>>
        /\ response = <<>>

\* a request with two sub-queries and both backends, all of whose four calls
\* failed or timed out, has returned
C16_Witness ==
    /\ pc = "done"
    /\ EveryCallDown
    /\ opts.useHybrid
    /\ Len(subqueries) = 2
    /\ Len(calls) = 4
    /\ \E n \in DOMAIN calls : calls[n].status = "timedout"
    /\ \E n \in DOMAIN calls : calls[n].status = "failed"
    /\ response = <<>>
    /\ error = "none"

\* every option value is one the interface allows: weights not negative,
\* topCredits within 2..4, counts at least 1
OptionsInRange(o) ==
    /\ o.denseWeight >= 0
    /\ o.lexicalWeight >= 0
    /\ o.topCredits \in 2..4
    /\ o.limit >= 1
    /\ o.maxSubqueries >= 1
    /\ o.maxChunksPerCredit >= 1
    /\ o.rrfK >= 0

\* C17: a request with an invalid option value fails with ConfigurationError
\* and no backend call of it is ever dispatched, no snapshot read and no
\* stage run; and a request fails only in that way: a failure is always
\* ConfigurationError and its options are invalid.
C17_ConfigurationErrorOnly ==
    /\ (pc # "idle" /\ ~OptionsInRange(opts)) =>
         /\ pc = "failed"
         /\ error = "ConfigurationError"
         /\ calls = <<>>
         /\ reads = {}
         /\ subqueries = <<>>
         /\ lists = <<>>
         /\ response = <<>>
    /\ (pc = "failed" \/ error # "none") =>
         /\ pc = "failed"
         /\ error = "ConfigurationError"
         /\ ~OptionsInRange(opts)

\* a request with a negative weight has failed, the index rebuilt meanwhile
C17_Witness ==
    /\ pc = "failed"
    /\ error = "ConfigurationError"
    /\ opts.denseWeight < 0
    /\ calls = <<>>
    /\ generation > held

\* C19: once a request has left the join point, none of its dispatched calls
\* is still pending - each has returned, failed or timed out - and the lists
\* under fusion are exactly what the calls brought: no result arrives later
\* to be lost or merged late.
C19_FusionWaitsForEveryCall ==
    (PastJoin /\ pc # "failed") =>
        /\ \A n \in DOMAIN calls :
             /\ calls[n].status \in {"returned", "failed", "timedout"}
             /\ calls[n].status = "returned" =>
                  calls[n].items = BackendAnswer(calls[n], subqueries, opts)
             /\ calls[n].status # "returned" => calls[n].items = <<>>
        /\ Len(calls) = Len(subqueries) * Len(BackendsOf(opts))
        /\ lists = JoinLists(calls, 1, Len(subqueries), opts)

\* the fusion of a request with four calls has run: the last call dispatched
\* returned, an earlier one timed out
C19_Witness ==
    /\ pc = "fused"
    /\ Len(calls) = 4
    /\ calls[4].status = "returned"
    /\ calls[4].items # <<>>
    /\ \E n \in DOMAIN calls : calls[n].status = "timedout"
    /\ fused # <<>>

\* C20: whatever rebuilds swap the snapshot reference while a request is in
\* flight, every backend call and metadata lookup of the request reads the
\* snapshot the request took at its start: it never reads two snapshots.
C20_OneSnapshotPerRequest ==
    /\ reads \subseteq { held }
    /\ Cardinality(reads) <= 1
    /\ held <= generation

\* the index was rebuilt after the request took its snapshot; a call has
\* returned from the old snapshot and another call is still pending
C20_Witness ==
    /\ pc = "dispatched"
    /\ generation > held
    /\ reads = { held }
    /\ \E n \in DOMAIN calls : calls[n].status = "returned"
    /\ \E n \in DOMAIN calls : calls[n].status = "pending"

\* ------------------------------------------------------------------------
\* Properties of the QueryExpander
\* ------------------------------------------------------------------------

NoRuleMatches(q) ==
    \A i \in DOMAIN ExpansionRules : ExpansionRules[i].token \notin Range(q)

\* C18: for every query and every maxSubqueries >= 1 the QueryExpander
\* returns at least 1 and at most maxSubqueries sub-queries, no two of them
\* equal, the original query among them, and the original query alone when no
\* expansion rule matches; it raises no error.
C18_ExpansionHoldsOriginal ==
    (pc = "expanded" /\ opts.useQueryExpansion) =>
        /\ error = "none"
        /\ Len(subqueries) >= 1
        /\ Len(subqueries) <= opts.maxSubqueries
        /\ \A i, j \in DOMAIN subqueries : i # j => subqueries[i] # subqueries[j]
        /\ query \in Range(subqueries)
        /\ NoRuleMatches(query) => subqueries = << query >>


\* ---------------------------------------------------------------------------
\* Concurrent requests and cancellation
\* ---------------------------------------------------------------------------

\* the stages after the join, in their order, on the lists of one request
ResponseOf(ls, o) ==
    LET f == ReciprocalRankFusion(ls, o.rrfK)
        d == RemoveNearDuplicates(f, o.dedupThreshold)
        g == IF o.useGrouping
             THEN GroupAndSelect(d, o.topCredits, o.maxChunksPerCredit)
             ELSE d
    IN  AssembleResponse(g, o.limit)

\* request r arrives and its calls are dispatched
StartRequest(table, r, q, o) ==
    LET subs == IF o.useQueryExpansion THEN ExpandQuery(q, o.maxSubqueries)
                ELSE << q >>
    IN  [ table EXCEPT ![r] =
            [ pc |-> "dispatched", query |-> q, opts |-> o, subqueries |-> subs,
              calls |-> DispatchCalls(subs, o), lists |-> <<>>, response |-> <<>> ] ]

\* call n of request r ends
SettleCall(table, r, n, status, items) ==
    [ table EXCEPT ![r].calls[n].status = status, ![r].calls[n].items = items ]

\* the join, the fusion and the later stages of request r
CompleteRequest(table, r) ==
    LET ls == JoinLists(table[r].calls, 1, Len(table[r].subqueries), table[r].opts)
    IN  [ table EXCEPT ![r].pc = "done", ![r].lists = ls,
                       ![r].response = ResponseOf(ls, table[r].opts) ]

\* the calls of a request with the pending ones abandoned
AbandonCalls(cs) ==
    [ n \in DOMAIN cs |->
        IF cs[n].status = "pending" THEN [ cs[n] EXCEPT !.status = "abandoned" ]
        ELSE cs[n] ]

\* variant: a cancellation abandons the calls of every request in flight
CancelEveryRequest(table, r) ==
    [ s \in DOMAIN table |->
        IF table[s].pc = "dispatched"
        THEN [ table[s] EXCEPT !.pc = "cancelled", !.calls = AbandonCalls(@) ]
        ELSE table[s] ]

\* cancellation of request r: its own in-flight calls are abandoned
CancelRequest(table, r) ==
    [ table EXCEPT ![r].pc = "cancelled", ![r].calls = AbandonCalls(@) ]

\* queries and option settings of the concurrent requests
ManyQueries == { <<"EA", "minimum", "energy", "performance">> }

ManyOptions ==
    { [ DefaultOptions EXCEPT !.useQueryExpansion = FALSE, !.useHybrid = h,
                              !.fusionMethod = "rrf", !.rrfK = 1 ] :
        h \in BOOLEAN }

manyVars == << pc, query, opts, subqueries, lists, fused, deduped, grouped, response,
               error, calls, degraded, held, reads, page, events >>

Start ==
    \E r \in DOMAIN requests :
        /\ requests[r].pc = "idle"
        /\ \E q \in ManyQueries, o \in ManyOptions :
             requests' = StartRequest(requests, r, q, o)
        /\ UNCHANGED << manyVars, generation >>

ManyCallReturns ==
    \E r \in DOMAIN requests :
        /\ requests[r].pc = "dispatched"
        /\ \E n \in DOMAIN requests[r].calls :
             /\ requests[r].calls[n].status = "pending"
             /\ requests' = SettleCall(requests, r, n, "returned",
                                BackendAnswer(requests[r].calls[n],
                                              requests[r].subqueries, requests[r].opts))
        /\ UNCHANGED << manyVars, generation >>

ManyCallTimesOut ==
    \E r \in DOMAIN requests :
        /\ requests[r].pc = "dispatched"
        /\ \E n \in DOMAIN requests[r].calls :
             /\ requests[r].calls[n].status = "pending"
             /\ requests' = SettleCall(requests, r, n, "timedout", <<>>)
        /\ UNCHANGED << manyVars, generation >>

Complete ==
    \E r \in DOMAIN requests :
        /\ requests[r].pc = "dispatched"
        /\ AllCallsSettled(requests[r].calls)
        /\ requests' = CompleteRequest(requests, r)
        /\ UNCHANGED << manyVars, generation >>

Cancel ==
    \E r \in DOMAIN requests :
        /\ requests[r].pc = "dispatched"
        /\ requests' = CancelRequest(requests, r)
        /\ UNCHANGED << manyVars, generation >>

NextMany ==
    \/ Start
    \/ ManyCallReturns
    \/ ManyCallTimesOut
    \/ Complete
    \/ Cancel
    \/ Rebuild

SpecMany == Init /\ [][NextMany]_vars

\* request r is cancelled by the step
CancelledNow(r) ==
    /\ requests[r].pc = "dispatched"
    /\ requests'[r].pc = "cancelled"

\* C21: cancelling one request abandons only the in-flight calls of that
\* request: the step leaves the index snapshot alone, and the calls, lists
\* and result of every other request are what they were, so that every other
\* request goes on as without the cancellation.
C21_CancellationIsLocal ==
    [][ \A r \in RequestIds :
          CancelledNow(r) =>
            /\ generation' = generation
            /\ \A n \in DOMAIN requests[r].calls :
                 requests'[r].calls[n].status =
                   IF requests[r].calls[n].status = "pending" THEN "abandoned"
                   ELSE requests[r].calls[n].status
            /\ \A s \in RequestIds \ {r} : requests'[s] = requests[s] ]_vars

\* request 1 is cancelled with a call abandoned while request 2, in flight,
\* has one call answered and one pending
C21_Witness ==
    /\ requests[1].pc = "cancelled"
    /\ \E n \in DOMAIN requests[1].calls : requests[1].calls[n].status = "abandoned"
    /\ requests[2].pc = "dispatched"
    /\ \E n \in DOMAIN requests[2].calls :
         /\ requests[2].calls[n].status = "returned"
         /\ requests[2].calls[n].items # <<>>
    /\ \E n \in DOMAIN requests[2].calls : requests[2].calls[n].status = "pending"


\* ---------------------------------------------------------------------------
\* Termination of a request
\* ---------------------------------------------------------------------------

\* a stage of the request after its calls: the join, the fusion, the
\* deduplication, the grouping or the assembly
StageStep ==
    \/ Join
    \/ Fuse
    \/ Deduplicate
    \/ Group
    \/ Assemble

\* the state in which a stage can run; every stage moves pc on, so that this
\* is ENABLED <<StageStep>>_vars
StageReady ==
    \/ pc = "dispatched" /\ AllCallsSettled(calls)
    \/ pc \in {"retrieved", "fused", "deduped", "grouped"}

\* the request runs on: its calls are dispatched, the timeout of a pending call
\* expires, and a stage that can run does (the weak fairness of StageStep with
\* its enabling condition written out); no backend ever has to answer
PipelineProgress ==
    /\ WF_vars(Dispatch)
    /\ WF_vars(CallTimesOut)
    /\ ([]<>(~StageReady)) \/ ([]<><<StageStep>>_vars)

SpecLive == Init /\ [][NextCalls]_vars /\ PipelineProgress

\* C22: every accepted request (valid options) eventually produces its
\* response, whatever the backends do and even when none of them ever answers:
\* each call ends by a reply, a failure or its timeout.
C22_AcceptedRequestResponds ==
    (pc = "expanded") ~> (pc = "done")

\* a request has responded although every one of its calls timed out
C22_Witness ==
    /\ pc = "done"
    /\ calls # <<>>
    /\ \A n \in DOMAIN calls : calls[n].status = "timedout"

\* ---------------------------------------------------------------------------
\* Provenance of the response
\* ---------------------------------------------------------------------------

\* the fields of a response record; dense is the component score the fused
\* entry retains
RecordFields ==
    { "chunk_id", "credit_id", "credit_name", "section", "page_start", "page_end",
      "source_document", "fused_score", "dense" }

\* the record carries the provenance of its chunk as the corpus holds it
CarriesProvenance(rec) ==
    LET chunk == Corpus[rec.chunk_id]
    IN  /\ DOMAIN rec = RecordFields
        /\ rec.credit_id = chunk.credit_id
        /\ rec.credit_name = chunk.credit_name
        /\ rec.section = chunk.section
        /\ rec.page_start = chunk.page_start
        /\ rec.page_end = chunk.page_end
        /\ rec.source_document = chunk.source_document

MaxEvents == 2

\* a file the FileReader cannot read
Unreadable == "unreadable"

\* what a selected file is read to: nothing (an empty file), text, or a read
\* error
FileContents == { "", "document text", Unreadable }

coreVars == << pc, query, opts, subqueries, lists, fused, deduped, grouped, response,
               error, calls, degraded, generation, held, reads, requests >>

\* config.js runs, in front of the DOMContentLoaded event
ConfigScriptRuns ==
    /\ ~page.loaded
    /\ ~page.hasConfig
    /\ page' = WithConfig(page)
    /\ UNCHANGED << coreVars, events >>

\* the DOMContentLoaded event: the three blocks of script.js initialise
DomContentLoaded ==
    /\ ~page.loaded
    /\ page' = Loaded(page)
    /\ UNCHANGED << coreVars, events >>

\* the user types one of the texts into the input, empty or blank so far
TypeOf(texts) ==
    /\ page.loaded
    /\ events < MaxEvents
    /\ Trim(page.input) = << >>
    /\ \E text \in texts :
         /\ text # page.input
         /\ page' = [ page EXCEPT !.input = text ]
    /\ UNCHANGED << coreVars, events >>

\* a submit event reaches the form
Submit ==
    /\ page.loaded
    /\ events < MaxEvents
    /\ page' = SubmitEvent(page)
    /\ events' = events + 1
    /\ UNCHANGED coreVars

\* the user clicks the send button or presses Enter in the input
ClickSend ==
    /\ page.loaded
    /\ events < MaxEvents
    /\ page' = SendClicked(page)
    /\ events' = events + 1
    /\ UNCHANGED coreVars

\* the user selects one of the files
SelectFileOf(contents) ==
    /\ page.loaded
    /\ events < MaxEvents
    /\ \E content \in contents : page' = FileSelected(page, content)
    /\ events' = events + 1
    /\ UNCHANGED coreVars

SelectFile == SelectFileOf(FileContents)

\* the user clicks the clear button
ClearChat ==
    /\ page.loaded
    /\ events < MaxEvents
    /\ page' = ClearClicked(page)
    /\ events' = events + 1
    /\ UNCHANGED coreVars

\* the request a reply waits for ends in one of the outcomes, and the reply
\* runs on to its next await or to its end
RequestEndsIn(outcomes) ==
    /\ \E n \in DOMAIN page.replies :
         /\ page.replies[n].at \notin { "done", "probe" }
         /\ \E o \in outcomes : page' = ReplyContinues(page, n, o)
    /\ UNCHANGED << coreVars, events >>

RequestEnds == RequestEndsIn(ApiOutcomes)

\* the status probe of a reply ends
ProbeEnds ==
    /\ \E n \in DOMAIN page.replies :
         /\ page.replies[n].at = "probe"
         /\ \E healthy \in BOOLEAN : page' = ProbeReturns(page, n, healthy)
    /\ UNCHANGED << coreVars, events >>

\* a FileReader has read its file
ReaderLoads ==
    /\ \E r \in DOMAIN page.readers :
         /\ page.readers[r].status = "reading"
         /\ page.readers[r].content # Unreadable
         /\ page' = ReaderLoaded(page, r)
    /\ UNCHANGED << coreVars, events >>

\* a FileReader fails to read its file
ReaderFails ==
    /\ \E r \in DOMAIN page.readers :
         /\ page.readers[r].status = "reading"
         /\ page.readers[r].content = Unreadable
         /\ page' = ReaderFailed(page, r)
    /\ UNCHANGED << coreVars, events >>

\* the page in the default environment, loaded with config.js
InitPage ==
    /\ PipelineIdle
    /\ RequestsIdle
    /\ page = Loaded(WithConfig(FreshPage(DefaultEnvironment)))
    /\ events = 0

\* no reply and no file read is in flight
Quiet ==
    /\ \A n \in DOMAIN page.replies : page.replies[n].at = "done"
    /\ \A r \in DOMAIN page.readers : page.readers[r].status # "reading"

\* a user who waits for the page to finish before the next event; every
\* prompt, every outcome of a request
ChatType == Quiet /\ TypeOf(PagePrompts)

ChatSubmit == Quiet /\ Submit

ChatClickSend == Quiet /\ ClickSend

ChatSelectFile == Quiet /\ SelectFile

ChatClear == Quiet /\ ClearChat

NextChat ==
    \/ ChatType
    \/ ChatSubmit
    \/ ChatClickSend
    \/ ChatSelectFile
    \/ ChatClear
    \/ RequestEnds
    \/ ProbeEnds
    \/ ReaderLoads
    \/ ReaderFails

SpecChat == InitPage /\ [][NextChat]_vars

\* a user who does not wait: replies, file reads and clicks interleave
RacePrompts == { TextHi, TextWater, TextShowAllCredits }

RaceOutcomes == { "failed", "some" }

RaceType == TypeOf(RacePrompts)

RaceSelectFile == SelectFileOf({ "document text" })

RaceRequestEnds == RequestEndsIn(RaceOutcomes)

NextRace ==
    \/ RaceType
    \/ Submit
    \/ RaceSelectFile
    \/ ClearChat
    \/ RaceRequestEnds
    \/ ProbeEnds
    \/ ReaderLoads

SpecRace == InitPage /\ [][NextRace]_vars

\* the page in any environment, before its scripts run
InitConfig ==
    /\ PipelineIdle
    /\ RequestsIdle
    /\ \E env \in Environments : page = FreshPage(env)
    /\ events = 0

NextConfig == ConfigScriptRuns \/ DomContentLoaded

SpecConfig == InitConfig /\ [][NextConfig]_vars

\* ---------------------------------------------------------------------------
\* The demo page: the status probe
\* ---------------------------------------------------------------------------

\* the replies of the page that are over
DoneReplies == { n \in DOMAIN page.replies : page.replies[n].at = "done" }

StatusProbe == "GET /api/status"

\* the requests of a reply came to nothing the reply could show
NoUsableResult(rep) ==
    CASE rep.branch = "credits"   -> rep.got # "none" /\ ~CreditsUsable(rep.got)
      [] rep.branch = "analyze"   -> rep.got \in { "failed", "error" }
      [] rep.branch = "greeting"  -> FALSE
      [] OTHER                    -> rep.got # "none" /\ ~QueryUsable(rep.block, rep.got)

\* the reply probed the status and reported what the probe found
ProbedAndReported(rep) ==
    /\ rep.calls # << >>
    /\ rep.calls[Len(rep.calls)] = StatusProbe
    /\ rep.healthy \in { "yes", "no" }
    /\ rep.healthy = "no" <=> rep.said = << "not-reachable" >>
    /\ rep.healthy = "yes" =>
         rep.said = << IF rep.branch = "credits" THEN "no-credit-list" ELSE "guidance" >>

LocalHostnames == { "localhost", "127.0.0.1", "" }

\* C25: getApiUrl returns the local URL exactly when autoDetect is true and
\* the host name of the page is 'localhost', '127.0.0.1' or empty, and the
\* production URL in every other case; the block of the page that asks
\* getApiUrl holds its answer once the page is loaded.
C25_LocalUrlOnlyForLocalHost ==
    LET api  == page.config
        host == page.env.hostname
        url  == GetApiUrl(api, host)
    IN  /\ api.autoDetect /\ host \in LocalHostnames => url = api.local
        /\ ~(api.autoDetect /\ host \in LocalHostnames) => url = api.production
        /\ page.loaded /\ page.hasConfig => page.ragApiUrl[2] = url

\* a page served from elsewhere talks to the deployed backend, and the local
\* and the production URL differ
C25_Witness ==
    /\ page.loaded
    /\ page.hasConfig
    /\ page.config.autoDetect
    /\ page.env.hostname = "aritrode29.github.io"
    /\ page.config.production = DeployedUrl
    /\ page.config.local # page.config.production
    /\ page.ragApiUrl[2] = DeployedUrl

\* ---------------------------------------------------------------------------
\* The demo page: the assistant and the query request
\* ---------------------------------------------------------------------------

\* C26: for a general prompt the page calls POST /api/assistant first, calls
\* POST /api/query only after an assistant call that gave no usable answer,
\* and never shows both the assistant answer and the query summary.
C26_AssistantBeforeQuery ==
    \A n \in DOMAIN page.replies :
      LET rep == page.replies[n]
      IN  rep.branch = "general" =>
            /\ rep.calls # << >>
            /\ rep.calls[1] = RequestAt("assistant")
            /\ RequestAt("query") \in Range(rep.calls) =>
                 /\ Len(rep.calls) >= 2
                 /\ rep.calls[2] = RequestAt("query")
                 /\ "assistant-answer" \notin Range(rep.said)
            /\ ~("assistant-answer" \in Range(rep.said) /\ "results" \in Range(rep.said))

\* ---------------------------------------------------------------------------
\* The demo page: the typing indicator
\* ---------------------------------------------------------------------------

\* the replies of the page that are not over
RepliesInFlight == DOMAIN page.replies \ DoneReplies

\* the indicators in the message list that botReply added
ReplyIndicators == { i \in DOMAIN page.messages :
                       IsTyping(page.messages[i]) /\ page.messages[i].op = "reply" }

\* C27: the typing indicator a botReply call added is gone from the message
\* list when the call is over, whatever path it took; with no reply in flight
\* no indicator of botReply remains.
C27_IndicatorGoneWhenReplyOver ==
    /\ \A i \in ReplyIndicators : page.messages[i].n \in RepliesInFlight
    /\ RepliesInFlight = {} => ReplyIndicators = {}

\* a greeting, answered within the submit, and a reply that waited for a
\* failed request and for the probe are both over, with their messages shown
C27_Witness ==
    /\ RepliesInFlight = {}
    /\ \E n, k \in DoneReplies :
         /\ page.replies[n].branch = "greeting"
         /\ page.replies[k].healthy = "no"
         /\ Len(page.replies[k].calls) = 2
    /\ \E i \in DOMAIN page.messages : page.messages[i].text = "not-reachable"

\* ---------------------------------------------------------------------------
\* The demo page: indicators of concurrent operations
\* ---------------------------------------------------------------------------

\* the operation that added indicator m is in flight after the step
StillInFlight(m) ==
    IF m.op = "reply" THEN page'.replies[m.n].at # "done"
    ELSE page'.readers[m.n].status = "reading"

\* C28: a typing or 'Processing document...' indicator stays in the message
\* list for as long as its own reply or file read is in flight: no step of
\* the page but the clearing of the chat removes the indicator of an
\* operation that is in flight after the step.
C28_IndicatorStaysWhileInFlight ==
    [][ ClearChat \/
        \A i \in DOMAIN page.messages :
          IsTyping(page.messages[i]) /\ StillInFlight(page.messages[i])
            => page.messages[i] \in Range(page'.messages) ]_vars

\* ---------------------------------------------------------------------------
\* The demo page: clearing the chat
\* ---------------------------------------------------------------------------

\* no block holds an uploaded document and the message list holds the welcome
\* message only
Pristine ==
    /\ \A b \in Range(Blocks) : page.uploadedDocument[b] = Null
    /\ Len(page.messages) = 1
    /\ page.messages[1].text = "welcome"

\* C29: the clearing of the chat leaves no uploaded document and only the
\* welcome message, and the page stays so until a submit or a file selection
\* that follows: no file read and no reply started before the clearing sets
\* the document or appends a message afterwards.
C29_ClearedUntilNewInput ==
    [][ /\ ClearChat => Pristine'
        /\ Pristine => (Pristine' \/ Submit \/ SelectFile) ]_vars

\* ---------------------------------------------------------------------------
\* The demo page: one reply per submit
\* ---------------------------------------------------------------------------

\* the number of messages of the user's prompts in a message list
UserPrompts(msgs) ==
    Len(SelectSeq(msgs, LAMBDA m : m.cls = "user" /\ m.text = "user-text"))

\* the requests the replies of a page have sent
RequestsSent(pg) == [ n \in DOMAIN pg.replies |-> pg.replies[n].calls ]

\* C30: a submit of the chat form, by a submit event or by the send button or
\* the Enter key, with non-blank text appends exactly one user message, clears
\* the input and starts exactly one botReply, for that text trimmed; with
\* empty or blank text it changes nothing: no message, no reply, no request.
C30_OneReplyPerSubmit ==
    [][ (Submit \/ ClickSend) =>
          IF Trim(page.input) # << >>
          THEN /\ UserPrompts(page'.messages) = UserPrompts(page.messages) + 1
               /\ page'.input = << >>
               /\ Len(page'.replies) = Len(page.replies) + 1
               /\ page'.replies[Len(page'.replies)].prompt = Trim(page.input)
               /\ \A n \in DOMAIN page.replies : page'.replies[n] = page.replies[n]
          ELSE /\ page'.messages = page.messages
               /\ page'.replies = page.replies
               /\ RequestsSent(page') = RequestsSent(page)
               /\ page'.input = page.input ]_vars

\* one prompt was submitted and answered by one reply, and a blank text was
\* submitted after it and is still in the input
C30_Witness ==
    /\ events = 2
    /\ page.input = TextBlank
    /\ UserPrompts(page.messages) = 1
    /\ Len(page.replies) = 1
    /\ page.replies[1].prompt = Trim(TextWater)
    /\ page.replies[1].calls # << >>

=============================================================================
